---- MODULE Spec2Model ----
(***************************************************************************)
(* Model of napcat-plugin-qq-version.                                      *)
(*                                                                         *)
(* Spec: the QQ install orchestrator, src/services/install-service.ts      *)
(* (progress store, topology detection, the three install pipelines,       *)
(* startInstall) and the /install/* routes of src/services/api-service.ts. *)
(* FetchSpec: the release fetcher and its cache, fetchMatchingRelease of   *)
(* src/services/github-service.ts.                                         *)
(* HttpSpec: the redirect chains of httpGetJson and downloadFile.          *)
(* LinkSpec: parseDownloadLinks and filterLinksForCurrentPlatform.         *)
(* NoteSpec: the same parser and parseVersionWarning on bodies that are    *)
(* absent, empty or malformed.                                             *)
(* CompareSpec: the already-installed check of GET /version/recommended.   *)
(* DetectSpec: detectPlatform and detectArch on links of one line each.    *)
(* HostSpec: the files an install run reads and writes under each          *)
(* topology, with the commands and file operations that fail on the host.  *)
(* TopologySpec: HostSpec with the topology classification of              *)
(* getQQInstallInfo and a host that changes while the process runs.        *)
(* Each specification moves the variables of its own service and holds the *)
(* others at their values at load time.                                    *)
(*                                                                         *)
(* Node runs handlers to completion: a handler or continuation is          *)
(* interrupted only at an await.  The only await of a pipeline is the      *)
(* download; everything after it uses execSync and synchronous fs calls.   *)
(* The variable cpu names the run whose synchronous continuation is on the *)
(* JavaScript thread (0: the event loop is free).  Requests and download   *)
(* callbacks are taken only when cpu = 0.                                  *)
(***************************************************************************)
EXTENDS Integers, Sequences, FiniteSets, TLC

\* ---------------------------------------------------------------- bounds
MaxRuns == 2
MaxBytes == 3

Runs == 1..MaxRuns

\* content-length values a download answers with (0: header absent)
ContentLengths == {0, 2}

Formats == {"deb", "rpm", "exe"}

Platforms == {"linux", "win32", "darwin", "freebsd"}

Archs == {"x64", "ia32"}

ToolSets ==
    { {"dpkg", "apt-get"}, {"dpkg"}, {"rpm", "dnf", "rpm2cpio", "cpio"},
      {"rpm"}, {} }

VARIABLES
    installProgress,  \* the module-level InstallProgress record
    installRunning,   \* the module-level running flag
    isDockerCached,   \* _isDocker: "null", "true" or "false"
    platform,         \* process.platform
    arch,             \* process.arch
    tools,            \* the command-line tools `which` finds
    dockerEnv,        \* what isDockerEnvironment() finds on this host
    rootlessEnv,      \* ~/Napcat/opt/QQ/qq or its package.json exists
    cpu,              \* the run whose synchronous code is executing, or 0
    run               \* per start-install request: its activation

\* the release fetcher of github-service.ts
VARIABLES
    appVersion,           \* app_version the running NapCat reports ("": none)
    cachedNapCatVersion,  \* the module-level version hint
    releaseCache,         \* the module-level release cache
    now,                  \* Date.now(), in minutes
    fetch                 \* per fetchMatchingRelease call: its activation

\* outbound requests: httpGetJson and downloadFile
VARIABLES
    request               \* per outbound request: where its redirect chain is

\* the link parser and the platform matcher of github-service.ts
VARIABLES
    body,                 \* the body of the resolved release
    served,               \* the route that has been served ("": none yet)
    links,                \* what parseDownloadLinks returned
    versionWarning,       \* what parseVersionWarning returned
    recommended,          \* what filterLinksForCurrentPlatform returned
    currentQQVersion,     \* the version the running QQ reports
    isAlreadyInstalled    \* what GET /version/recommended answered

\* the install pipelines on the disk
VARIABLES
    disk,                 \* the files the pipelines read and write, and
                          \* the paths the run that is followed has written
    failing,              \* the commands and file operations that fail
    seen,                 \* what each topology classification answered
    job                   \* the activation of startInstall that is followed

env == << platform, arch, tools, dockerEnv, rootlessEnv >>

fetchVars == << appVersion, cachedNapCatVersion, releaseCache, now, fetch >>

httpVars == << request >>

linkVars ==
    << body, served, links, versionWarning, recommended, currentQQVersion,
       isAlreadyInstalled >>

installVars ==
    << installProgress, installRunning, isDockerCached, env, cpu, run >>

hostVars == << disk, failing, seen, job >>

vars == << installVars, hostVars, fetchVars, httpVars, linkVars >>

\* what no step of an install run touches: the host and the other services
installFixed == << env, hostVars, fetchVars, httpVars, linkVars >>

\* ------------------------------------------------------- progress store
NoExtra ==
    [downloadedBytes |-> -1, totalBytes |-> -1, error |-> "", finishedAt |-> 0]

IdleProgress ==
    [stage |-> "idle", percent |-> 0, downloadedBytes |-> -1,
     totalBytes |-> -1, error |-> "", finishedAt |-> 0]

ResetInstallProgress ==
    [progress |-> IdleProgress, running |-> FALSE]

UpdateProgress(stage, percent, extra) ==
    [stage |-> stage, percent |-> percent,
     downloadedBytes |-> extra.downloadedBytes,
     totalBytes |-> extra.totalBytes,
     error |-> extra.error,
     finishedAt |-> extra.finishedAt]

Terminal == {"done", "error"}

\* ------------------------------------------------- platform detection
DetectPackageInstaller(t) ==
    IF "dpkg" \in t THEN "dpkg" ELSE IF "rpm" \in t THEN "rpm" ELSE "none"

DetectPackageManager(t) ==
    IF "apt-get" \in t THEN "apt-get" ELSE IF "dnf" \in t THEN "dnf" ELSE "none"

GetSystemArch(a) ==
    IF a = "x64" THEN "amd64" ELSE IF a = "arm64" THEN "arm64" ELSE "unknown"

\* isDocker(): the detection runs once, its result is kept in _isDocker
IsDocker ==
    IF isDockerCached = "null" THEN dockerEnv ELSE isDockerCached = "true"

IsDockerCacheAfter ==
    IF isDockerCached = "null"
    THEN (IF dockerEnv THEN "true" ELSE "false")
    ELSE isDockerCached

\* (mutant for C23) the existence test is made in a container too
IsRootlessModeInDocker == rootlessEnv

IsRootlessMode ==
    IF IsDocker THEN FALSE ELSE rootlessEnv

\* the branch startInstall takes
Topology ==
    IF IsDocker THEN "docker" ELSE IF IsRootlessMode THEN "rootless" ELSE "system"

\* ------------------------------------------- checks made before the try
\* The reason each pipeline throws before its try block ("" when it goes on).
DockerPreCheck(fmt) ==
    IF GetSystemArch(arch) = "unknown" THEN "unsupported arch"
    ELSE IF fmt # "deb" THEN "docker supports deb only"
    ELSE IF DetectPackageInstaller(tools) # "dpkg" THEN "dpkg not found"
    ELSE ""

RootlessPreCheck(fmt) ==
    IF GetSystemArch(arch) = "unknown" THEN "unsupported arch"
    ELSE IF fmt = "deb" /\ DetectPackageInstaller(tools) # "dpkg"
        THEN "dpkg not found"
    ELSE IF fmt = "rpm" /\ ~({"rpm2cpio", "cpio"} \subseteq tools)
        THEN "rpm2cpio/cpio not found"
    ELSE IF fmt # "deb" /\ fmt # "rpm" THEN "unsupported format"
    ELSE ""

SystemPreCheck(fmt) ==
    IF GetSystemArch(arch) = "unknown" THEN "unsupported arch"
    ELSE IF fmt = "deb" /\ DetectPackageInstaller(tools) # "dpkg"
        THEN "dpkg not found"
    ELSE IF fmt = "rpm" /\ DetectPackageInstaller(tools) # "rpm"
        THEN "rpm not found"
    ELSE IF fmt # "deb" /\ fmt # "rpm" THEN "unsupported format"
    ELSE ""

PreCheck(topo, fmt) ==
    IF topo = "docker" THEN DockerPreCheck(fmt)
    ELSE IF topo = "rootless" THEN RootlessPreCheck(fmt)
    ELSE SystemPreCheck(fmt)

FormatReasons ==
    {"docker supports deb only", "dpkg not found", "rpm2cpio/cpio not found",
     "rpm not found", "unsupported format"}

\* ------------------------------------------------------ download stage
Min(a, b) == IF a < b THEN a ELSE b

\* Math.round(n / d) for n >= 0, d > 0
Round(n, d) == (2 * n + d) \div (2 * d)

\* (mutant for C34) the percentage is not capped at the end of the stage
DownloadPercentUncapped(downloaded, total) ==
    IF total > 0 THEN Round(downloaded * 50, total) + 5 ELSE 10

\* (mutant for C6) an unknown total size reports 0 percent
DownloadPercentZero(downloaded, total) ==
    IF total > 0 THEN Min(Round(downloaded * 50, total) + 5, 55) ELSE 0

\* the percent the download callback publishes
DownloadPercent(downloaded, total) ==
    IF total > 0 THEN Min(Round(downloaded * 50, total) + 5, 55) ELSE 10

\* ------------------------------------------- the code after the download
\* One entry per statement that publishes progress or can throw.
Upd(stage, percent) ==
    [op |-> "update", name |-> "", stage |-> stage, percent |-> percent,
     skip |-> 0]

\* a statement whose exception reaches the pipeline's catch block
Fatal(name) ==
    [op |-> "fatal", name |-> name, stage |-> "", percent |-> 0, skip |-> 0]

\* a statement inside an inner try: on failure the next skip entries are
\* jumped over and the pipeline goes on
Soft(name, skip) ==
    [op |-> "soft", name |-> name, stage |-> "", percent |-> 0, skip |-> skip]

\* (mutant for C5) "extracting done" is published after "installing"
DockerStepsReordered ==
    << Fatal("file missing"), Fatal("file too small"),
       Upd("downloading", 55),
       Upd("extracting", 58),
       Fatal("dpkg -x"), Fatal("opt/QQ missing"),
       Upd("installing", 70),
       Upd("extracting", 65),
       Fatal("cp -rf"),
       Upd("installing", 82),
       Upd("installing", 84),
       Soft("patch", 0),
       Upd("installing", 88),
       Soft("config", 0),
       Upd("installing", 93),
       Soft("cleanup", 0),
       Upd("done", 100) >>

DockerSteps ==
    << Fatal("file missing"), Fatal("file too small"),
       Upd("downloading", 55),
       Upd("extracting", 58),
       Fatal("dpkg -x"), Fatal("opt/QQ missing"),
       Upd("extracting", 65),
       Upd("installing", 70),
       Fatal("cp -rf"),
       Upd("installing", 82),
       Upd("installing", 84),
       Soft("patch", 0),
       Upd("installing", 88),
       Soft("config", 0),
       Upd("installing", 93),
       Soft("cleanup", 0),
       Upd("done", 100) >>

\* (mutant for C37) the scratch directory is removed after done is published
RootlessStepsCleanupLast(fmt) ==
    << Fatal("file missing"), Fatal("file too small"),
       Upd("downloading", 55),
       Upd("extracting", 58),
       Fatal(IF fmt = "deb" THEN "dpkg -x" ELSE "rpm2cpio"),
       Fatal("opt/QQ missing"),
       Upd("extracting", 65),
       Upd("installing", 70),
       Fatal("mkdir baseDir"), Fatal("cp -rf"),
       Upd("installing", 82),
       Upd("installing", 84),
       Soft("patch", 0),
       Upd("installing", 88),
       Soft("config", 0),
       Upd("installing", 93),
       Upd("done", 100),
       Soft("cleanup", 0) >>

RootlessSteps(fmt) ==
    << Fatal("file missing"), Fatal("file too small"),
       Upd("downloading", 55),
       Upd("extracting", 58),
       Fatal(IF fmt = "deb" THEN "dpkg -x" ELSE "rpm2cpio"),
       Fatal("opt/QQ missing"),
       Upd("extracting", 65),
       Upd("installing", 70),
       Fatal("mkdir baseDir"), Fatal("cp -rf"),
       Upd("installing", 82),
       Upd("installing", 84),
       Soft("patch", 0),
       Upd("installing", 88),
       Soft("config", 0),
       Upd("installing", 93),
       Soft("cleanup", 0),
       Upd("done", 100) >>

\* (mutant for C29) the dependency commands are outside any inner try
SystemInstallStepsDepsFatal(fmt, manager) ==
    IF fmt = "deb"
    THEN << Fatal(IF manager = "apt-get" THEN "apt-get install" ELSE "dpkg -i"),
            Upd("installing", 80),
            Upd("installing", 85) >>
         \o (IF manager = "apt-get"
             THEN << Fatal("apt-get -f"), Fatal("libnss3"),
                     Fatal("libasound2") >>
             ELSE << >>)
    ELSE << Fatal(IF manager = "dnf" THEN "dnf localinstall" ELSE "rpm -Uvh"),
            Upd("installing", 85) >>

\* the package install, then for a deb under apt-get the dependency commands:
\* if apt-get install -y -f throws the two library installs are skipped
SystemInstallSteps(fmt, manager) ==
    IF fmt = "deb"
    THEN << Fatal(IF manager = "apt-get" THEN "apt-get install" ELSE "dpkg -i"),
            Upd("installing", 80),
            Upd("installing", 85) >>
         \o (IF manager = "apt-get"
             THEN << Soft("apt-get -f", 2), Soft("libnss3", 0),
                     Soft("libasound2", 0) >>
             ELSE << >>)
    ELSE << Fatal(IF manager = "dnf" THEN "dnf localinstall" ELSE "rpm -Uvh"),
            Upd("installing", 85) >>

SystemSteps(fmt, manager) ==
    << Fatal("file missing"), Fatal("file too small"),
       Upd("downloading", 55),
       Upd("installing", 60) >>
    \o SystemInstallSteps(fmt, manager)
    \o << Upd("installing", 88),
          Soft("config", 0),
          Upd("installing", 90),
          Soft("cleanup", 0),
          Upd("done", 100) >>

Steps(topo, fmt) ==
    IF topo = "docker" THEN DockerSteps
    ELSE IF topo = "rootless" THEN RootlessSteps(fmt)
    ELSE SystemSteps(fmt, DetectPackageManager(tools))

\* (mutant for C7) the final update passes no finishedAt
DoneExtraMissing == NoExtra

\* what the final updateProgress('done', ...) adds to the record
DoneExtra == [NoExtra EXCEPT !.finishedAt = 1]

\* what the catch block's updateProgress('error', ...) adds to the record
ErrorExtra(errMsg) == [NoExtra EXCEPT !.error = errMsg]

\* the statements of a step that are fatal to the run
FatalNames ==
    {"scratch setup", "download", "file missing", "file too small", "dpkg -x",
     "rpm2cpio", "opt/QQ missing", "mkdir baseDir", "cp -rf",
     "apt-get install", "dpkg -i", "dnf localinstall", "rpm -Uvh"}

\* --------------------------------------------------------- route layer
\* (mutant for C9) the route forgets the macOS check
ApiPlatformRejectWindowsOnly(p) ==
    IF p = "win32" THEN "400 windows unsupported" ELSE ""

\* POST /install/start answers 400 on Windows and macOS before anything else
ApiPlatformReject(p) ==
    IF p = "win32" THEN "400 windows unsupported"
    ELSE IF p = "darwin" THEN "400 macos unsupported"
    ELSE ""

\* the platform checks at the head of startInstall
StartInstallPlatformReject(p) ==
    IF p = "win32" THEN "windows unsupported"
    ELSE IF p = "darwin" THEN "macos unsupported"
    ELSE IF p # "linux" THEN "unsupported platform"
    ELSE ""


\* ---------------------------------------------------- release fetcher
\* Text is modelled by TLA+ strings: Len, SubSeq and \o act on them as the
\* JavaScript operations act on the characters.
StartsWith(s, prefix) ==
    Len(s) >= Len(prefix) /\ SubSeq(s, 1, Len(prefix)) = prefix

\* CACHE_TTL_MS, in minutes (the unit of now)
CACHE_TTL == 5

Null == "null"

\* app_version values NapCat reports ("": the call fails or reports none)
AppVersions == {"", "unknown", "1.0", "v1.0"}

\* the tag of the release GET /releases/latest answers with
LatestTag == "v2.0"

EmptyCache == [data |-> Null, timestamp |-> 0, version |-> ""]

\* const currentVersion = cachedNapCatVersion || 'latest'
CurrentVersion(hint) == IF hint # "" THEN hint ELSE "latest"

\* (mutant for C12) the cache test forgets the key the entry was stored under
CacheHitAnyKey(cache, currentVersion, time) ==
    /\ cache.data # Null
    /\ time - cache.timestamp < CACHE_TTL

\* the test that guards the cached descriptor
CacheHit(cache, currentVersion, time) ==
    /\ cache.data # Null
    /\ cache.version = currentVersion
    /\ time - cache.timestamp < CACHE_TTL

\* if (cachedNapCatVersion && cachedNapCatVersion !== 'unknown')
HintKnown(hint) == hint # "" /\ hint # "unknown"

TagName(hint) == IF StartsWith(hint, "v") THEN hint ELSE "v" \o hint

\* (mutant for C14) the alternate tag keeps the hint's own prefix
TagNameUpperKeepsPrefix(hint) == "V" \o hint

\* `V${cachedNapCatVersion.replace(/^v/i, '')}`
TagNameUpper(hint) ==
    IF StartsWith(hint, "v") \/ StartsWith(hint, "V")
    THEN "V" \o SubSeq(hint, 2, Len(hint))
    ELSE "V" \o hint

TagUrl(tag) == "/releases/tags/" \o tag

LatestUrl == "/releases/latest"

\* the ways httpGetJson rejects: a network error or the 15 s timeout, an
\* HTTP status of 400 or more, a body that is not JSON
Failures == {"network", "http", "parse"}

NewFetch ==
    [pc |-> "new", key |-> "", calls |-> << >>, outs |-> << >>,
     result |-> "", raised |-> ""]

\* the module state of github-service.ts when it is loaded
FetchIdle ==
    /\ appVersion = ""
    /\ cachedNapCatVersion = ""
    /\ releaseCache = EmptyCache
    /\ now = 0
    /\ fetch = << >>

\* no outbound request has been made
HttpIdle == request = << >>

\* no release body has been parsed
LinkIdle ==
    /\ body = ""
    /\ served = ""
    /\ links = << >>
    /\ versionWarning = ""
    /\ recommended = << >>
    /\ currentQQVersion = "unknown"
    /\ isAlreadyInstalled = FALSE

\* ------------------------------------------------- the host's files
\* ----------------------------------------------------------- the paths
DOCKER_QQ_PATH == "/opt/QQ"

DOCKER_NAPCAT_PATH == "/app/napcat"

DOCKER_QQ_DATA_PATH == "/app/.config/QQ"

\* process.env.HOME
Home == "/home/napcat"

\* path.join(a, b)
PathJoin(a, b) == a \o "/" \o b

\* getRootlessBaseDir()
RootlessBaseDir == PathJoin(Home, "Napcat")

\* const tmpDir = '/tmp/napcat-qq-install'
TmpDir == "/tmp/napcat-qq-install"

\* qqBasePath of the rootless pipeline
RootlessQQPath == PathJoin(RootlessBaseDir, "opt/QQ")

\* the directories a QQ installation is in
InstallDirs == {DOCKER_QQ_PATH, RootlessQQPath}

PackageJsonPath(qqBase) == PathJoin(qqBase, "resources/app/package.json")

\* (mutant for C28) the loader shim is written next to napcat.mjs
LoadNapCatPathInNapCat(qqBase) == PathJoin(DOCKER_NAPCAT_PATH, "loadNapCat.js")

LoadNapCatPath(qqBase) == PathJoin(qqBase, "resources/app/loadNapCat.js")

\* getQQVersionConfigPaths(), given what isDocker() answers
QQVersionConfigPaths(docker) ==
    (IF docker THEN << PathJoin(DOCKER_QQ_DATA_PATH, "versions") >> ELSE << >>)
        \o (IF Home # "" THEN << PathJoin(Home, ".config/QQ/versions") >>
            ELSE << >>)

ConfigDirs ==
    {PathJoin(DOCKER_QQ_DATA_PATH, "versions"),
     PathJoin(Home, ".config/QQ/versions")}

ConfigFile(configDir) == PathJoin(configDir, "config.json")

\* the place startInstall installs to under each topology
InstallDir(topo) == IF topo = "rootless" THEN RootlessQQPath ELSE DOCKER_QQ_PATH

\* ------------------------------------------------------ file contents
\* package.json: absent, not JSON ("corrupt"), or a document with a version
\* ("": none) and a main field
NoManifest == [state |-> "absent", version |-> "", main |-> ""]

LoaderMain == "./loadNapCat.js"

\* the main field of the package.json a QQ package ships
ShippedMain == "./application/app_launcher/index.js"

ShippedManifest(version) ==
    [state |-> "ok", version |-> version, main |-> ShippedMain]

\* the package.json files a downloaded package may hold
PackageManifests ==
    { ShippedManifest("3.2.25-45758"), ShippedManifest("3.2.26-46000"),
      ShippedManifest(""),
      [state |-> "corrupt", version |-> "", main |-> ""],
      NoManifest }

\* the script the Docker pipeline writes to loadNapCat.js
DockerLoadScript ==
    "import('file:///" \o DOCKER_NAPCAT_PATH \o "/napcat.mjs')"

\* a loadNapCat.js that is in the container before the plugin runs: another
\* text for the same import (the Docker pipeline writes file:/// and then the
\* absolute path, which gives four slashes)
ImageLoadScript == "import('file:///app/napcat/napcat.mjs')"

\* the script the rootless pipeline writes when there is none
RootlessLoadScript ==
    "import('file:///"
        \o PathJoin(RootlessQQPath, "resources/app/app_launcher")
        \o "/napcat/napcat.mjs')"

\* versions/config.json: absent, not JSON, or a document with three fields
NoConfig ==
    [state |-> "absent", baseVersion |-> "", curVersion |-> "", buildId |-> ""]

OldConfig ==
    [state |-> "ok", baseVersion |-> "3.2.24-44000",
     curVersion |-> "3.2.24-44000", buildId |-> "44000"]

\* a config.json that readFileSync or JSON.parse throws on
CorruptConfig ==
    [state |-> "corrupt", baseVersion |-> "", curVersion |-> "",
     buildId |-> ""]

\* the disk before the plugin has run: nothing installed, nothing written
EmptyDisk ==
    [manifest |-> [d \in InstallDirs |-> NoManifest],
     shim |-> [d \in InstallDirs |-> ""],
     config |-> [c \in ConfigDirs |-> NoConfig],
     written |-> {}]

IdleJob ==
    [pc |-> "idle", n |-> 0, topo |-> "", link |-> [url |-> "", format |-> ""],
     package |-> NoManifest, targetVersion |-> Null, actualVersion |-> Null,
     err |-> "", before |-> EmptyDisk]

\* the install service on a host where nothing has been installed or asked
HostIdle ==
    /\ disk = EmptyDisk
    /\ failing = {}
    /\ seen = << >>
    /\ job = IdleJob

\* ------------------------------------------------------------- the runs
NewRun ==
    [pc |-> "new", i |-> 0, topo |-> "", fmt |-> "", total |-> 0, bytes |-> 0,
     faults |-> {}, err |-> "", cleanup |-> "none",
     pub |-> [stage |-> "idle", percent |-> 0], thrown |-> "", resp |-> ""]

\* a run that is inside its pipeline's try block
Active(r) == run[r].pc \in {"download", "steps", "catch"}

Started(r) == run[r].pc # "new"

\* requests are numbered in the order they arrive
NextRequest(r) == run[r].pc = "new" /\ \A q \in 1..(r - 1) : Started(q)

\* what a run keeps once its activation is gone
Ended(rec) ==
    [rec EXCEPT !.pc = "ended", !.i = 0, !.fmt = "", !.total = 0, !.bytes = 0,
                !.faults = {}, !.err = "", !.cleanup = "none"]

Init ==
    /\ installProgress = IdleProgress
    /\ installRunning = FALSE
    /\ isDockerCached = "null"
    /\ platform \in Platforms
    /\ arch \in Archs
    /\ tools \in ToolSets
    /\ dockerEnv \in BOOLEAN
    /\ rootlessEnv \in BOOLEAN
    /\ (platform # "linux" =>
            arch = "x64" /\ tools = {} /\ ~dockerEnv /\ ~rootlessEnv)
    /\ cpu = 0
    /\ run = [r \in Runs |-> NewRun]
    /\ HostIdle
    /\ FetchIdle
    /\ HttpIdle
    /\ LinkIdle

\* ----- POST /install/start, up to the first await of startInstall ------
\* The request is answered by the route before startInstall is called.
StartRefused(r, hasUrl) ==
    /\ cpu = 0
    /\ NextRequest(r)
    /\ LET resp == IF ApiPlatformReject(platform) # ""
                       THEN ApiPlatformReject(platform)
                   ELSE IF installRunning THEN "409 already running"
                   ELSE IF ~hasUrl THEN "400 missing url"
                   ELSE ""
       IN  /\ resp # ""
           /\ run' = [run EXCEPT ![r] = [Ended(@) EXCEPT !.resp = resp]]
    /\ UNCHANGED << installProgress, installRunning, isDockerCached,
                    installFixed, cpu >>

RouteAccepts ==
    /\ ApiPlatformReject(platform) = ""
    /\ ~installRunning

\* startInstall throws before it touches the flag; the route has already
\* passed its own checks, logs the rejection and answers "started".
StartThrowsAtEntry(r) ==
    /\ cpu = 0
    /\ NextRequest(r)
    /\ RouteAccepts
    /\ LET why == IF installRunning THEN "already running"
                  ELSE StartInstallPlatformReject(platform)
       IN  /\ why # ""
           /\ run' = [run EXCEPT ![r] =
                        [Ended(@) EXCEPT !.thrown = why, !.resp = "started"]]
    /\ UNCHANGED << installProgress, installRunning, isDockerCached,
                    installFixed, cpu >>

StartEnters ==
    /\ RouteAccepts
    /\ ~installRunning
    /\ StartInstallPlatformReject(platform) = ""

\* installRunning = true; resetInstallProgress(); then the pipeline's checks
\* throw before its try block; finally clears the flag.
StartThrowsPreCheck(r, fmt) ==
    /\ cpu = 0
    /\ NextRequest(r)
    /\ StartEnters
    /\ PreCheck(Topology, fmt) # ""
    /\ installProgress' = ResetInstallProgress.progress
    /\ installRunning' = FALSE
    /\ isDockerCached' = IsDockerCacheAfter
    /\ run' = [run EXCEPT ![r] =
                 [Ended(@) EXCEPT !.topo = Topology,
                                  !.thrown = PreCheck(Topology, fmt),
                                  !.resp = "started"]]
    /\ UNCHANGED << installFixed, cpu >>

\* ... the scratch directory cannot be prepared: the catch block runs next
StartSetupFails(r, fmt) ==
    /\ cpu = 0
    /\ NextRequest(r)
    /\ StartEnters
    /\ PreCheck(Topology, fmt) = ""
    /\ installProgress' = ResetInstallProgress.progress
    /\ installRunning' = ResetInstallProgress.running
    /\ isDockerCached' = IsDockerCacheAfter
    /\ run' = [run EXCEPT ![r] =
                 [@ EXCEPT !.pc = "catch", !.i = 1, !.topo = Topology,
                           !.fmt = fmt, !.err = "scratch setup",
                           !.faults = {"scratch setup"}, !.resp = "started"]]
    /\ cpu' = r
    /\ UNCHANGED installFixed

\* ... the download is started and startInstall awaits it
StartDownloads(r, fmt, total) ==
    /\ cpu = 0
    /\ NextRequest(r)
    /\ StartEnters
    /\ PreCheck(Topology, fmt) = ""
    /\ installProgress' =
          UpdateProgress("downloading", 5,
              [NoExtra EXCEPT !.downloadedBytes = 0, !.totalBytes = 0])
    /\ installRunning' = ResetInstallProgress.running
    /\ isDockerCached' = IsDockerCacheAfter
    /\ run' = [run EXCEPT ![r] =
                 [@ EXCEPT !.pc = "download", !.topo = Topology, !.fmt = fmt,
                           !.total = total,
                           !.pub = [stage |-> "downloading", percent |-> 5],
                           !.resp = "started"]]
    /\ UNCHANGED << installFixed, cpu >>

\* ------------------------------------------------ the awaited download
\* downloadFile's onProgress callback: more bytes have arrived
DownloadProgress(r, downloaded) ==
    /\ cpu = 0
    /\ run[r].pc = "download"
    /\ downloaded > run[r].bytes
    /\ LET percent == DownloadPercent(downloaded, run[r].total)
       IN  /\ installProgress' =
                 UpdateProgress("downloading", percent,
                     [NoExtra EXCEPT !.downloadedBytes = downloaded,
                                     !.totalBytes = run[r].total])
           /\ run' = [run EXCEPT ![r] =
                        [@ EXCEPT !.bytes = downloaded,
                                  !.pub = [stage |-> "downloading",
                                           percent |-> percent]]]
    /\ UNCHANGED << installRunning, isDockerCached, installFixed, cpu >>

\* downloadFile resolves: the rest of the pipeline runs without an await
DownloadResolves(r) ==
    /\ cpu = 0
    /\ run[r].pc = "download"
    /\ run' = [run EXCEPT ![r] =
                 [@ EXCEPT !.pc = "steps", !.i = 1, !.total = 0, !.bytes = 0]]
    /\ cpu' = r
    /\ UNCHANGED << installProgress, installRunning, isDockerCached,
                    installFixed >>

\* downloadFile rejects (HTTP error, too many redirects, timeout, stream)
DownloadRejects(r) ==
    /\ cpu = 0
    /\ run[r].pc = "download"
    /\ run' = [run EXCEPT ![r] =
                 [@ EXCEPT !.pc = "catch", !.i = 1, !.total = 0, !.bytes = 0,
                           !.err = "download",
                           !.faults = @ \cup {"download"}]]
    /\ cpu' = r
    /\ UNCHANGED << installProgress, installRunning, isDockerCached,
                    installFixed >>

\* ------------------------------------- the synchronous rest of the run
CurrentStep(r) == Steps(run[r].topo, run[r].fmt)[run[r].i]

AtStep(r, op) ==
    /\ cpu = r
    /\ run[r].pc = "steps"
    /\ CurrentStep(r).op = op

\* where the run is after the entry at index i
After(r, i) ==
    IF i >= Len(Steps(run[r].topo, run[r].fmt))
    THEN [pc |-> "finally", i |-> 0]
    ELSE [pc |-> "steps", i |-> i + 1]

\* the empty catch around rm -rf drops its outcome: all that is left of the
\* removal is that it was attempted
Attempted(cleanup) == IF cleanup = "none" THEN "none" ELSE "attempted"

\* an updateProgress call of the pipeline
StepUpdate(r) ==
    /\ AtStep(r, "update")
    /\ LET s == CurrentStep(r)
           extra == IF s.stage = "done" THEN DoneExtra ELSE NoExtra
       IN  /\ installProgress' = UpdateProgress(s.stage, s.percent, extra)
           /\ run' = [run EXCEPT ![r] =
                        [@ EXCEPT !.pc = After(r, run[r].i).pc,
                                  !.i = After(r, run[r].i).i,
                                  !.pub = [stage |-> s.stage,
                                           percent |-> s.percent],
                                  !.cleanup = Attempted(@)]]
    /\ UNCHANGED << installRunning, isDockerCached, installFixed, cpu >>

\* a command or check succeeds
StepOk(r) ==
    /\ \/ AtStep(r, "fatal")
       \/ AtStep(r, "soft")
    /\ run' = [run EXCEPT ![r] =
                 [@ EXCEPT !.pc = After(r, run[r].i).pc,
                           !.i = After(r, run[r].i).i,
                           !.cleanup = IF CurrentStep(r).name = "cleanup"
                                       THEN "removed" ELSE @]]
    /\ UNCHANGED << installProgress, installRunning, isDockerCached,
                    installFixed, cpu >>

\* a command or check throws into the pipeline's catch block
StepThrows(r) ==
    /\ AtStep(r, "fatal")
    /\ run' = [run EXCEPT ![r] =
                 [@ EXCEPT !.pc = "catch", !.i = 1,
                           !.err = CurrentStep(r).name,
                           !.faults = @ \cup {CurrentStep(r).name}]]
    /\ UNCHANGED << installProgress, installRunning, isDockerCached,
                    installFixed, cpu >>

\* a command throws inside an inner try: logged, the pipeline goes on
StepSwallowed(r) ==
    /\ AtStep(r, "soft")
    /\ CurrentStep(r).name # "cleanup"
    /\ LET j == run[r].i + CurrentStep(r).skip
       IN  run' = [run EXCEPT ![r] =
                     [@ EXCEPT !.pc = After(r, j).pc, !.i = After(r, j).i,
                               !.faults = @ \cup {CurrentStep(r).name}]]
    /\ UNCHANGED << installProgress, installRunning, isDockerCached,
                    installFixed, cpu >>

\* the final rm -rf of the scratch directory throws: the empty catch takes
\* it and the pipeline goes on
CleanupFails(r) ==
    /\ AtStep(r, "soft")
    /\ CurrentStep(r).name = "cleanup"
    /\ run' = [run EXCEPT ![r] =
                 [@ EXCEPT !.pc = After(r, run[r].i).pc,
                           !.i = After(r, run[r].i).i,
                           !.cleanup = "failed"]]
    /\ UNCHANGED << installProgress, installRunning, isDockerCached,
                    installFixed, cpu >>

\* the catch block: rm -rf of the scratch directory, which succeeds or
\* throws into its own empty catch: either way the next statement is the
\* publication of the error, ...
CatchCleanup(r) ==
    /\ cpu = r
    /\ run[r].pc = "catch"
    /\ run[r].i = 1
    /\ run' = [run EXCEPT ![r] =
                 [@ EXCEPT !.i = 2,
                           !.cleanup = "attempted"]]
    /\ UNCHANGED << installProgress, installRunning, isDockerCached,
                    installFixed, cpu >>

\* (mutant for C3) the catch block publishes the stage without the message
CatchProgressNoText(errMsg) == UpdateProgress("error", 0, NoExtra)

\* what the catch block publishes for the error message it caught
CatchProgress(errMsg) == UpdateProgress("error", 0, ErrorExtra(errMsg))

\* ... then updateProgress('error', 0, ..., {error}) and the rethrow
CatchPublish(r) ==
    /\ cpu = r
    /\ run[r].pc = "catch"
    /\ run[r].i = 2
    /\ installProgress' = CatchProgress(run[r].err)
    /\ run' = [run EXCEPT ![r] =
                 [@ EXCEPT !.pc = "finally", !.i = 0,
                           !.pub = [stage |-> installProgress'.stage,
                                    percent |-> installProgress'.percent],
                           !.cleanup = Attempted(@)]]
    /\ UNCHANGED << installRunning, isDockerCached, installFixed, cpu >>

\* startInstall's finally block; the activation ends
Finally(r) ==
    /\ cpu = r
    /\ run[r].pc = "finally"
    /\ installRunning' = FALSE
    /\ run' = [run EXCEPT ![r] = Ended(@)]
    /\ cpu' = 0
    /\ UNCHANGED << installProgress, isDockerCached, installFixed >>

\* -------------------------------------------------- the other requests
\* POST /install/reset
ResetRequest ==
    /\ cpu = 0
    /\ installProgress' = ResetInstallProgress.progress
    /\ installRunning' = ResetInstallProgress.running
    /\ UNCHANGED << isDockerCached, installFixed, cpu, run >>

\* GET /install/progress answers with a copy of installProgress and changes
\* nothing: every state below is a state a poll can observe when cpu = 0.

\* ---------------------------------------------------- the specification
RunStep(r) ==
    \/ DownloadResolves(r)
    \/ DownloadRejects(r)
    \/ StepUpdate(r)
    \/ StepOk(r)
    \/ StepThrows(r)
    \/ StepSwallowed(r)
    \/ CleanupFails(r)
    \/ CatchCleanup(r)
    \/ CatchPublish(r)
    \/ Finally(r)

Next ==
    \/ \E r \in Runs, hasUrl \in BOOLEAN : StartRefused(r, hasUrl)
    \/ \E r \in Runs : StartThrowsAtEntry(r)
    \/ \E r \in Runs, fmt \in Formats : StartThrowsPreCheck(r, fmt)
    \/ \E r \in Runs, fmt \in Formats : StartSetupFails(r, fmt)
    \/ \E r \in Runs, fmt \in Formats, total \in ContentLengths :
          StartDownloads(r, fmt, total)
    \/ \E r \in Runs, d \in 1..MaxBytes : DownloadProgress(r, d)
    \/ \E r \in Runs : RunStep(r)
    \/ ResetRequest

Spec == Init /\ [][Next]_vars

\* ==================================================== release fetcher
\* fetchMatchingRelease awaits each httpGetJson call; between its awaits
\* other handlers run.  A lookup is one httpGetJson call, redirects included.
MaxFetches == 2
MaxTime == 6

Fetches == 1..MaxFetches

\* the install service at rest on a Linux host
InstallIdle ==
    /\ installProgress = IdleProgress
    /\ installRunning = FALSE
    /\ isDockerCached = "null"
    /\ platform = "linux"
    /\ arch = "x64"
    /\ tools = {}
    /\ dockerEnv = FALSE
    /\ rootlessEnv = FALSE
    /\ cpu = 0
    /\ run = << >>
    /\ HostIdle

\* what no step of the fetcher touches
fetchFixed == << installVars, hostVars, httpVars, linkVars >>

FetchInit ==
    /\ appVersion \in AppVersions
    /\ cachedNapCatVersion = ""
    /\ releaseCache = EmptyCache
    /\ now = 0
    /\ fetch = [f \in Fetches |-> NewFetch]
    /\ InstallIdle
    /\ HttpIdle
    /\ LinkIdle

\* calls are numbered in the order they are made
NextFetch(f) ==
    fetch[f].pc = "new" /\ \A g \in 1..(f - 1) : fetch[g].pc # "new"

\* initVersionInfo, called by plugin_init: get_version_info answers (ok) or
\* throws; an empty app_version leaves the hint as it is
InitVersionInfo(ok) ==
    /\ cachedNapCatVersion' =
          IF ok /\ appVersion # "" THEN appVersion ELSE cachedNapCatVersion
    /\ UNCHANGED << appVersion, releaseCache, now, fetch, fetchFixed >>

\* a minute passes
Tick ==
    /\ now < MaxTime
    /\ now' = now + 1
    /\ UNCHANGED << appVersion, cachedNapCatVersion, releaseCache, fetch,
                    fetchFixed >>

\* fetchMatchingRelease finds the cached descriptor valid and returns it
FetchFromCache(f) ==
    /\ NextFetch(f)
    /\ LET currentVersion == CurrentVersion(cachedNapCatVersion)
       IN  /\ CacheHit(releaseCache, currentVersion, now)
           /\ fetch' = [fetch EXCEPT ![f] =
                          [@ EXCEPT !.pc = "done", !.key = currentVersion,
                                    !.result = releaseCache.data]]
    /\ UNCHANGED << appVersion, cachedNapCatVersion, releaseCache, now,
                    fetchFixed >>

\* the first request of a call that found no valid cached descriptor
FirstUrl(hint) ==
    IF HintKnown(hint) THEN TagUrl(TagName(hint)) ELSE LatestUrl

\* fetchMatchingRelease finds no valid cached descriptor and sends its first
\* request; refresh: the call comes from POST /version/refresh (or the
\* refresh command), which clears the cache first
FetchRequests(f, refresh) ==
    /\ NextFetch(f)
    /\ LET cache == IF refresh THEN EmptyCache ELSE releaseCache
           currentVersion == CurrentVersion(cachedNapCatVersion)
       IN  /\ ~CacheHit(cache, currentVersion, now)
           /\ releaseCache' = cache
           /\ fetch' = [fetch EXCEPT ![f] =
                          [@ EXCEPT !.pc = IF HintKnown(cachedNapCatVersion)
                                           THEN "exact" ELSE "latest",
                                    !.key = currentVersion,
                                    !.calls =
                                        << FirstUrl(cachedNapCatVersion) >>]]
    /\ UNCHANGED << appVersion, cachedNapCatVersion, now, fetchFixed >>

\* the release GitHub answers a request with
ReleaseAt(url) ==
    IF url = LatestUrl THEN LatestTag
    ELSE SubSeq(url, Len(TagUrl("")) + 1, Len(url))

Last(s) == s[Len(s)]

\* (mutant for C39) only a release found under its tag is cached
LookupResolvesTagOnly(f) ==
    /\ fetch[f].pc \in {"exact", "upper", "latest"}
    /\ LET release == ReleaseAt(Last(fetch[f].calls))
       IN  /\ releaseCache' = IF fetch[f].pc = "latest" THEN releaseCache
                               ELSE [data |-> release, timestamp |-> now,
                                     version |-> fetch[f].key]
           /\ fetch' = [fetch EXCEPT ![f] =
                          [@ EXCEPT !.pc = "done",
                                    !.outs = Append(@, "ok"),
                                    !.result = release]]
    /\ UNCHANGED << appVersion, cachedNapCatVersion, now, fetchFixed >>

\* a lookup resolves: the descriptor is cached under the key the call
\* computed when it began, and returned
LookupResolves(f) ==
    /\ fetch[f].pc \in {"exact", "upper", "latest"}
    /\ LET release == ReleaseAt(Last(fetch[f].calls))
       IN  /\ releaseCache' = [data |-> release, timestamp |-> now,
                               version |-> fetch[f].key]
           /\ fetch' = [fetch EXCEPT ![f] =
                          [@ EXCEPT !.pc = "done",
                                    !.outs = Append(@, "ok"),
                                    !.result = release]]
    /\ UNCHANGED << appVersion, cachedNapCatVersion, now, fetchFixed >>

\* the exact-tag lookup rejects (its catch takes any rejection alike: the
\* lookup is recorded as failed): the upper-case tag is requested
ExactRejects(f, why) ==
    /\ fetch[f].pc = "exact"
    /\ fetch' = [fetch EXCEPT ![f] =
                   [@ EXCEPT !.pc = "upper",
                             !.outs = Append(@, "failed"),
                             !.calls = Append(@,
                                 TagUrl(TagNameUpper(cachedNapCatVersion)))]]
    /\ UNCHANGED << appVersion, cachedNapCatVersion, releaseCache, now,
                    fetchFixed >>

\* the upper-case lookup rejects: the latest release is requested
UpperRejects(f, why) ==
    /\ fetch[f].pc = "upper"
    /\ fetch' = [fetch EXCEPT ![f] =
                   [@ EXCEPT !.pc = "latest",
                             !.outs = Append(@, "failed"),
                             !.calls = Append(@, LatestUrl)]]
    /\ UNCHANGED << appVersion, cachedNapCatVersion, releaseCache, now,
                    fetchFixed >>

\* (mutant for C15) the request for the latest release is outside the try
FetchCatchRethrows(e) == [result |-> "", raised |-> e]

\* the outer catch: the error is logged and null is returned
FetchCatch(e) == [result |-> Null, raised |-> ""]

\* the latest lookup rejects
LatestRejects(f, why) ==
    /\ fetch[f].pc = "latest"
    /\ fetch' = [fetch EXCEPT ![f] =
                   [@ EXCEPT !.pc = "done",
                             !.outs = Append(@, "failed"),
                             !.result = FetchCatch(why).result,
                             !.raised = FetchCatch(why).raised]]
    /\ UNCHANGED << appVersion, cachedNapCatVersion, releaseCache, now,
                    fetchFixed >>

\* getVersionMatchResult: null when no release was resolved
GetVersionMatchResult(release) ==
    IF release = Null THEN Null ELSE "result of " \o release

FetchNext ==
    \/ \E ok \in BOOLEAN : InitVersionInfo(ok)
    \/ Tick
    \/ \E f \in Fetches : FetchFromCache(f)
    \/ \E f \in Fetches, refresh \in BOOLEAN : FetchRequests(f, refresh)
    \/ \E f \in Fetches : LookupResolves(f)
    \/ \E f \in Fetches, why \in Failures : ExactRejects(f, why)
    \/ \E f \in Fetches, why \in Failures : UpperRejects(f, why)
    \/ \E f \in Fetches, why \in Failures : LatestRejects(f, why)

FetchSpec == FetchInit /\ [][FetchNext]_vars

\* ================================================== outbound requests
\* httpGetJson (metadata) and downloadFile (package): each answer of the
\* server is a redirect (a 3xx status with a location), a final answer, or
\* none (error, timeout).  The timeout (15 s, 60 s) is set per request: a
\* redirect that is followed starts a new request with a new timeout.
MaxRequests == 2
MaxHops == 8

Requests == 1..MaxRequests

\* the bound in downloadFile's doRequest
MAX_REDIRECTS == 5

NewRequest == [fn |-> "", pc |-> "new", redirectCount |-> 0, followed |-> 0]

\* what no step of a request touches
httpFixed == << installVars, hostVars, fetchVars, linkVars >>

HttpInit ==
    /\ request = [q \in Requests |-> NewRequest]
    /\ InstallIdle
    /\ FetchIdle
    /\ LinkIdle

\* httpGetJson(url) or downloadFile(url, ...) sends its first request
Send(q, fn) ==
    /\ request[q].pc = "new"
    /\ \A p \in 1..(q - 1) : request[p].pc # "new"
    /\ request' = [request EXCEPT ![q] =
                     [@ EXCEPT !.fn = fn, !.pc = "pending"]]
    /\ UNCHANGED httpFixed

\* httpGetJson is answered with a redirect: it calls itself with the
\* location, and nothing counts the calls
JsonRedirected(q) ==
    /\ request[q].fn = "httpGetJson"
    /\ request[q].pc = "pending"
    /\ request[q].followed < MaxHops
    /\ request' = [request EXCEPT ![q] = [@ EXCEPT !.followed = @ + 1]]
    /\ UNCHANGED httpFixed

\* downloadFile is answered with a redirect: doRequest(location,
\* redirectCount + 1), which rejects when the count is over the bound
DownloadRedirected(q) ==
    /\ request[q].fn = "downloadFile"
    /\ request[q].pc = "pending"
    /\ request[q].followed < MaxHops
    /\ LET redirectCount == request[q].redirectCount + 1
       IN  request' = [request EXCEPT ![q] =
                         IF redirectCount > MAX_REDIRECTS
                         THEN [@ EXCEPT !.pc = "rejected"]
                         ELSE [@ EXCEPT !.redirectCount = redirectCount,
                                        !.followed = @ + 1]]
    /\ UNCHANGED httpFixed

\* the server's final answer, or none: the promise settles
Settles(q, ok) ==
    /\ request[q].pc = "pending"
    /\ request' = [request EXCEPT ![q] =
                     [@ EXCEPT !.pc = IF ok THEN "resolved" ELSE "rejected"]]
    /\ UNCHANGED httpFixed

HttpNext ==
    \/ \E q \in Requests, fn \in {"httpGetJson", "downloadFile"} : Send(q, fn)
    \/ \E q \in Requests : JsonRedirected(q)
    \/ \E q \in Requests : DownloadRedirected(q)
    \/ \E q \in Requests, ok \in BOOLEAN : Settles(q, ok)

HttpSpec == HttpInit /\ [][HttpNext]_vars

\* ================================== link parser and platform matcher
\* ------------------------------------------------ JavaScript strings
\* s.includes(needle)
Includes(s, needle) ==
    \E i \in 1..(Len(s) - Len(needle) + 1) :
        SubSeq(s, i, i + Len(needle) - 1) = needle

\* s.endsWith(suffix)
EndsWith(s, suffix) ==
    /\ Len(s) >= Len(suffix)
    /\ SubSeq(s, Len(s) - Len(suffix) + 1, Len(s)) = suffix

\* s.substring(i - 1, j): the characters at positions i..j that s has
Slice(s, i, j) ==
    IF i > Len(s) \/ j < i THEN ""
    ELSE SubSeq(s, i, IF j > Len(s) THEN Len(s) ELSE j)

\* s.charAt(i - 1)
CharAt(s, i) == IF i < 1 \/ i > Len(s) THEN "" ELSE SubSeq(s, i, i)

UpperCaseLetters == "ABCDEFGHIJKLMNOPQRSTUVWXYZ"

LowerCaseLetters == "abcdefghijklmnopqrstuvwxyz"

\* the lower-case letter of each upper-case letter
LowerOf ==
    [c \in {CharAt(UpperCaseLetters, i) : i \in 1..Len(UpperCaseLetters)} |->
        LET i == CHOOSE j \in 1..Len(UpperCaseLetters) :
                     CharAt(UpperCaseLetters, j) = c
        IN  CharAt(LowerCaseLetters, i)]

UpperCase == DOMAIN LowerOf

LowerChar(c) == IF c \in UpperCase THEN LowerOf[c] ELSE c

\* the characters of s at positions i..j, each in lower case
RECURSIVE LowerRange(_, _, _)
LowerRange(s, i, j) ==
    IF i > j THEN ""
    ELSE IF i = j THEN LowerChar(CharAt(s, i))
    ELSE LET mid == (i + j) \div 2
         IN  LowerRange(s, i, mid) \o LowerRange(s, mid + 1, j)

\* s.toLowerCase()
ToLowerCase(s) == LowerRange(s, 1, Len(s))

WhiteSpace == {" ", "\t", "\n", "\r"}

\* s.trim()
RECURSIVE Trim(_)
Trim(s) ==
    IF s = "" THEN ""
    ELSE IF CharAt(s, 1) \in WhiteSpace THEN Trim(Slice(s, 2, Len(s)))
    ELSE IF CharAt(s, Len(s)) \in WhiteSpace
        THEN Trim(Slice(s, 1, Len(s) - 1))
    ELSE s

\* the first position from `from` on where c stands in s (0: nowhere)
RECURSIVE IndexOf(_, _, _)
IndexOf(s, c, from) ==
    IF from > Len(s) THEN 0
    ELSE IF CharAt(s, from) = c THEN from
    ELSE IndexOf(s, c, from + 1)

\* where the regular expression engine next finds the character c that its
\* pattern begins with, from position `from` on (0: nowhere)
Search(s, c, from) ==
    LET hits == {k \in from..Len(s) : CharAt(s, k) = c}
    IN  IF hits = {} THEN 0
        ELSE CHOOSE k \in hits : \A j \in hits : k <= j

\* \d
Digits == {"0", "1", "2", "3", "4", "5", "6", "7", "8", "9"}

\* the last position of the run of characters of `set` that begins at
\* position i of s (i - 1: there is none)
RECURSIVE SpanEnd(_, _, _)
SpanEnd(s, i, set) ==
    IF CharAt(s, i) \in set THEN SpanEnd(s, i + 1, set) ELSE i - 1

\* the least element of a non-empty set of numbers
Least(set) == CHOOSE k \in set : \A j \in set : k <= j

Greatest(set) == CHOOSE k \in set : \A j \in set : k >= j

\* -------------------------------------------------------- linkRegex
\* /\*{0,2}\[([^\]]+)\]\((https?:\/\/[^)]+)\)\*{0,2}/g
\* The leading \*{0,2} matches asterisks only and changes no capture: a
\* match begins at the first "[" from which the rest of the pattern matches.
\* [^\]]+ ends at the first "]" and [^)]+ at the first ")".

\* the length of the scheme https?:\/\/ at position i of s (0: none)
SchemeAt(s, i) ==
    IF Slice(s, i, i + 7) = "https://" THEN 8
    ELSE IF Slice(s, i, i + 6) = "http://" THEN 7
    ELSE 0

\* the number of asterisks the trailing \*{0,2} takes at position i
StarsAt(s, i) ==
    IF CharAt(s, i) # "*" THEN 0 ELSE IF CharAt(s, i + 1) # "*" THEN 1 ELSE 2

\* the match whose "[" is at position i: its captures and its last position
\* (ok false: no match there)
MatchAt(s, i) ==
    LET j == IndexOf(s, "]", i + 1)
        n == SchemeAt(s, j + 2)
        k == IndexOf(s, ")", j + 2 + n)
    IN  IF /\ CharAt(s, i) = "["
           /\ j > i + 1
           /\ CharAt(s, j + 1) = "("
           /\ n > 0
           /\ k > j + 2 + n
        THEN [ok |-> TRUE, label |-> Slice(s, i + 1, j - 1),
              url |-> Slice(s, j + 2, k - 1), end |-> k + StarsAt(s, k + 1)]
        ELSE [ok |-> FALSE, label |-> "", url |-> "", end |-> 0]

\* ----------------------------------------------- parseDownloadLinks
DetectPlatform(label, url) ==
    LET lowerLabel == ToLowerCase(label)
        lowerUrl == ToLowerCase(url)
    IN  IF \/ Includes(lowerLabel, "win")
           \/ Includes(lowerUrl, "_x64.exe")
           \/ Includes(lowerUrl, "_x86.exe")
        THEN "windows"
        ELSE IF Includes(lowerLabel, "linux") \/ Includes(lowerUrl, "linuxqq")
            THEN "linux"
        ELSE IF Includes(lowerLabel, "mac") \/ Includes(lowerUrl, ".dmg")
            THEN "mac"
        ELSE "unknown"

DetectArch(label, url) ==
    LET lowerLabel == ToLowerCase(label)
        lowerUrl == ToLowerCase(url)
    IN  IF \/ Includes(lowerLabel, "arm64") \/ Includes(lowerLabel, "aarch64")
           \/ Includes(lowerUrl, "arm64") \/ Includes(lowerUrl, "aarch64")
        THEN "arm64"
        ELSE IF \/ Includes(lowerLabel, "x64")
                \/ Includes(lowerLabel, "x86_64")
                \/ Includes(lowerUrl, "x64") \/ Includes(lowerUrl, "amd64")
                \/ Includes(lowerUrl, "x86_64")
            THEN "x64"
        ELSE "unknown"

DetectFormat(url) ==
    LET lowerUrl == ToLowerCase(url)
    IN  IF EndsWith(lowerUrl, ".exe") THEN "exe"
        ELSE IF EndsWith(lowerUrl, ".deb") THEN "deb"
        ELSE IF EndsWith(lowerUrl, ".rpm") THEN "rpm"
        ELSE IF EndsWith(lowerUrl, ".dmg") THEN "dmg"
        ELSE "unknown"

\* the two tests that make the loop skip a match
SkipsUrl(url) ==
    \/ ~Includes(url, "qq.com")
    \/ Includes(url, "github.com")
    \/ Includes(url, "aka.ms")
    \/ Includes(url, "napneko.github.io")

\* the body of the while loop for one match: the links it pushes
LinksOfMatch(m) ==
    LET label == Trim(m.label)
        url == Trim(m.url)
    IN  IF SkipsUrl(url) THEN << >>
        ELSE << [label |-> label, url |-> url,
                 platform |-> DetectPlatform(label, url),
                 arch |-> DetectArch(label, url),
                 format |-> DetectFormat(url)] >>

\* the loop over linkRegex.exec(body), from position i on: a match begins
\* at a "[" only
RECURSIVE ParseFrom(_, _)
ParseFrom(s, i) ==
    LET p == Search(s, "[", i)
        m == MatchAt(s, p)
    IN  IF p = 0 THEN << >>
        ELSE IF m.ok THEN LinksOfMatch(m) \o ParseFrom(s, m.end + 1)
        ELSE ParseFrom(s, p + 1)

\* !body: the body is null (the release has no description) or empty
Absent(text) == text = Null \/ text = ""

ParseDownloadLinks(text) == IF Absent(text) THEN << >> ELSE ParseFrom(text, 1)

\* ---------------------------------------------- parseVersionWarning
\* /\*{2}(<note>[^*]*)\*{2}/g, where <note> is the two-character word
\* U+6CE8 U+610F.  Strings of this module are ASCII: the two characters are
\* written "#!", which stands nowhere else in a body.
NoteWord == "#!"

\* (mutant for C22) one closing asterisk is enough
NoteAtOneStar(s, i) ==
    LET k == IndexOf(s, "*", i + 2 + Len(NoteWord))
    IN  IF /\ Slice(s, i, i + 1) = "**"
           /\ Slice(s, i + 2, i + 1 + Len(NoteWord)) = NoteWord
           /\ k > 0
        THEN [ok |-> TRUE, text |-> Slice(s, i + 2, k - 1), end |-> k]
        ELSE [ok |-> FALSE, text |-> "", end |-> 0]

\* the match that begins at position i: [^*]* ends at the first asterisk,
\* which must be the first of two (ok false: no match there)
NoteAt(s, i) ==
    LET k == IndexOf(s, "*", i + 2 + Len(NoteWord))
    IN  IF /\ Slice(s, i, i + 1) = "**"
           /\ Slice(s, i + 2, i + 1 + Len(NoteWord)) = NoteWord
           /\ k > 0
           /\ Slice(s, k, k + 1) = "**"
        THEN [ok |-> TRUE, text |-> Slice(s, i + 2, k - 1), end |-> k + 1]
        ELSE [ok |-> FALSE, text |-> "", end |-> 0]

\* the loop over warningRegex.exec(body), from position i on: a match can
\* begin at an asterisk only
RECURSIVE WarningsFrom(_, _)
WarningsFrom(s, i) ==
    LET p == Search(s, "*", i)
        m == NoteAt(s, p)
    IN  IF p = 0 THEN << >>
        ELSE IF m.ok THEN << Trim(m.text) >> \o WarningsFrom(s, m.end + 1)
        ELSE WarningsFrom(s, p + 1)

\* list.join(sep)
RECURSIVE Join(_, _)
Join(list, sep) ==
    IF list = << >> THEN ""
    ELSE IF Len(list) = 1 THEN list[1]
    ELSE list[1] \o sep \o Join(Tail(list), sep)

ParseVersionWarning(text) ==
    IF Absent(text) THEN "" ELSE Join(WarningsFrom(text, 1), "\n")

\* ------------------------------------ filterLinksForCurrentPlatform
\* (mutant for C19) macOS is left out of the mapping
TargetPlatformNoMac(p) ==
    IF p = "win32" THEN "windows" ELSE IF p = "linux" THEN "linux"
    ELSE "unknown"

TargetPlatform(p) ==
    IF p = "win32" THEN "windows"
    ELSE IF p = "linux" THEN "linux"
    ELSE IF p = "darwin" THEN "mac"
    ELSE "unknown"

TargetArch(a) ==
    IF a = "x64" \/ a = "x86_64" THEN "x64"
    ELSE IF a = "arm64" \/ a = "aarch64" THEN "arm64"
    ELSE "unknown"

\* (mutant for C21) the callback forgets the platform
FilterKeepsAnyPlatform(link, targetPlatform, targetArch) ==
    ~(/\ targetArch # "unknown"
      /\ link.arch # "unknown"
      /\ link.arch # targetArch)

\* (mutant for C20) candidates of unknown architecture are dropped too
FilterKeepsStrict(link, targetPlatform, targetArch) ==
    /\ link.platform = targetPlatform
    /\ ~(targetArch # "unknown" /\ link.arch # targetArch)

\* the callback of links.filter
FilterKeeps(link, targetPlatform, targetArch) ==
    /\ link.platform = targetPlatform
    /\ ~(/\ targetArch # "unknown"
         /\ link.arch # "unknown"
         /\ link.arch # targetArch)

FilterLinksForCurrentPlatform(list) ==
    LET Keeps(link) ==
            FilterKeeps(link, TargetPlatform(platform), TargetArch(arch))
    IN  SelectSeq(list, Keeps)

\* ------------------------------------------ the already-installed check
\* [\d.]
VersionChars == Digits \cup {"."}

\* url.match(/linuxqq_([\d.]+)-/)?.[1] (Null: no match)
LinuxMatch(url) ==
    LET End(p) == SpanEnd(url, p + 8, VersionChars)
        at == {p \in 1..Len(url) :
                 /\ Slice(url, p, p + 7) = "linuxqq_"
                 /\ End(p) >= p + 8
                 /\ CharAt(url, End(p) + 1) = "-"}
    IN  IF at = {} THEN Null ELSE Slice(url, Least(at) + 8, End(Least(at)))

\* ([\d.]+)\. with the capture beginning at position a of s: the engine gives
\* characters back until a "." follows the capture (0: no match)
WinCaptureEnd(s, a) ==
    LET dots == {k \in (a + 1)..SpanEnd(s, a, VersionChars) :
                    CharAt(s, k) = "."}
    IN  IF dots = {} THEN 0 ELSE Greatest(dots) - 1

\* url.match(/QQ([\d.]+)\./i)?.[1]
WinMatch(url) ==
    LET at == {p \in 1..Len(url) :
                 /\ ToLowerCase(Slice(url, p, p + 1)) = "qq"
                 /\ WinCaptureEnd(url, p + 2) > 0}
    IN  IF at = {} THEN Null
        ELSE Slice(url, Least(at) + 2, WinCaptureEnd(url, Least(at) + 2))

\* url.match(/QQ[_v]*([\d.]+)/i)?.[1]
MacMatch(url) ==
    LET Begin(p) == SpanEnd(url, p + 2, {"_", "v", "V"}) + 1
        End(p) == SpanEnd(url, Begin(p), VersionChars)
        at == {p \in 1..Len(url) :
                 /\ ToLowerCase(Slice(url, p, p + 1)) = "qq"
                 /\ End(p) >= Begin(p)}
    IN  IF at = {} THEN Null ELSE Slice(url, Begin(Least(at)), End(Least(at)))

\* linuxMatch?.[1] || winMatch?.[1] || macMatch?.[1] || ''
TargetVer(url) ==
    IF LinuxMatch(url) # Null THEN LinuxMatch(url)
    ELSE IF WinMatch(url) # Null THEN WinMatch(url)
    ELSE IF MacMatch(url) # Null THEN MacMatch(url)
    ELSE ""

\* s.split(/[.\-]/)
RECURSIVE SplitVersion(_)
SplitVersion(s) ==
    LET seps == {k \in 1..Len(s) : CharAt(s, k) \in {".", "-"}}
    IN  IF seps = {} THEN << s >>
        ELSE << Slice(s, 1, Least(seps) - 1) >>
                \o SplitVersion(Slice(s, Least(seps) + 1, Len(s)))

DecimalDigits == "0123456789"

DigitValue(c) == (CHOOSE k \in 1..Len(DecimalDigits) :
                     CharAt(DecimalDigits, k) = c) - 1

\* Number(piece) || 0 for a piece of a version string: the value of a string
\* of digits; 0 for the empty string and for NaN
RECURSIVE NumberOrZero(_)
NumberOrZero(piece) ==
    IF piece = "" THEN 0
    ELSE IF \E k \in 1..Len(piece) : CharAt(piece, k) \notin Digits THEN 0
    ELSE Len(DecimalDigits) * NumberOrZero(Slice(piece, 1, Len(piece) - 1))
            + DigitValue(CharAt(piece, Len(piece)))

\* parts[i] || 0
PartOrZero(parts, i) == IF i > Len(parts) THEN 0 ELSE NumberOrZero(parts[i])

\* (mutant for C31) the last differing segment decides
CompareFromLastDiffering(currentParts, targetParts, i) ==
    LET last == IF Len(currentParts) > Len(targetParts)
                THEN Len(currentParts) ELSE Len(targetParts)
        differ == {k \in i..last :
                     PartOrZero(currentParts, k) # PartOrZero(targetParts, k)}
    IN  IF differ = {} THEN 0
        ELSE IF PartOrZero(currentParts, Greatest(differ))
                  > PartOrZero(targetParts, Greatest(differ)) THEN 1
        ELSE -1

\* the loop that sets cmp, from segment i on
RECURSIVE CompareFrom(_, _, _)
CompareFrom(currentParts, targetParts, i) ==
    IF i > Len(currentParts) /\ i > Len(targetParts) THEN 0
    ELSE IF PartOrZero(currentParts, i) > PartOrZero(targetParts, i) THEN 1
    ELSE IF PartOrZero(currentParts, i) < PartOrZero(targetParts, i) THEN -1
    ELSE CompareFrom(currentParts, targetParts, i + 1)

\* isAlreadyInstalled of GET /version/recommended
IsAlreadyInstalled(list, current) ==
    /\ list # << >>
    /\ current # ""
    /\ current # "unknown"
    /\ TargetVer(list[1].url) # ""
    /\ CompareFrom(SplitVersion(current),
                   SplitVersion(TargetVer(list[1].url)), 1) >= 0

\* ------------------------------------------------- release bodies
MaxLines == 2

Dldir == "https://dldir1.qq.com/qqfile/"

\* lines a release body is made of: the kinds of download link of the
\* NapCatQQ release notes and links to other sites
BodyLines ==
    { "**[9.9.26-44343 X64 Win](" \o Dldir \o "QQ9.9.26.44343_x64.exe)**\n",
      "[LinuxX64 DEB 45758](" \o Dldir \o "linuxqq_3.2.25-45758_amd64.deb)\n",
      "[LinuxArm64 RPM 45758]("
          \o Dldir \o "linuxqq_3.2.25-45758_aarch64.rpm)\n",
      "[MAC DMG 40990](https://dldir1v6.qq.com/QQ_v6.9.82.40990.dmg)\n",
      "[new] see [QQ home](https://im.qq.com/index/)\n",
      "[Changelog](https://github.com/NapNeko/NapCatQQ/releases)\n",
      "[Guide](https://napneko.github.io/guide?from=im.qq.com)\n",
      "[ ](" \o Dldir \o "linuxqq_3.2.25-45758_amd64.deb)\n",
      "[LinuxX64 DEB mirror]"
          \o "(https://mirror.example/dldir1.qq.com/linuxqq_amd64.deb)\n" }

\* the bodies of at most n lines
RECURSIVE BodiesUpTo(_)
BodiesUpTo(n) ==
    IF n = 0 THEN {""}
    ELSE BodiesUpTo(n - 1)
            \cup {b \o l : b \in BodiesUpTo(n - 1), l \in BodyLines}

Bodies == BodiesUpTo(MaxLines)

\* process.arch on the hosts considered
NodeArchs == Archs \cup {"arm64"}

\* what no step of the parser or the matcher touches
linkFixed ==
    << installProgress, installRunning, isDockerCached, platform, arch,
       tools, dockerEnv, rootlessEnv, cpu, run, hostVars, fetchVars,
       httpVars >>

LinkInit ==
    /\ body \in Bodies
    /\ served = ""
    /\ links = << >>
    /\ versionWarning = ""
    /\ recommended = << >>
    /\ currentQQVersion = "unknown"
    /\ isAlreadyInstalled = FALSE
    /\ platform \in Platforms
    /\ arch \in NodeArchs
    /\ installProgress = IdleProgress
    /\ installRunning = FALSE
    /\ isDockerCached = "null"
    /\ tools = {}
    /\ dockerEnv = FALSE
    /\ rootlessEnv = FALSE
    /\ cpu = 0
    /\ run = << >>
    /\ HostIdle
    /\ FetchIdle
    /\ HttpIdle

\* GET /version: getVersionMatchResult parses the body of the release
ServeVersion ==
    /\ served = ""
    /\ served' = "/version"
    /\ links' = ParseDownloadLinks(body)
    /\ versionWarning' = ParseVersionWarning(body)
    /\ UNCHANGED << body, recommended, currentQQVersion, isAlreadyInstalled,
                    linkFixed >>

\* GET /version/recommended: getRecommendedLinks parses the body and keeps
\* the links for this host; the route compares the running QQ with the first
ServeRecommended ==
    /\ served = ""
    /\ served' = "/version/recommended"
    /\ links' = ParseDownloadLinks(body)
    /\ versionWarning' = ParseVersionWarning(body)
    /\ recommended' = FilterLinksForCurrentPlatform(links')
    /\ isAlreadyInstalled' = IsAlreadyInstalled(recommended', currentQQVersion)
    /\ UNCHANGED << body, currentQQVersion, linkFixed >>

LinkNext ==
    \/ ServeVersion
    \/ ServeRecommended

LinkSpec == LinkInit /\ [][LinkNext]_vars

\* ------------------------------------- bodies without link or note
\* text that is close to a download link or to an emphasized note and is
\* neither: a space between label and address, an empty label, a scheme that
\* is not http(s), no opening bracket; a note closed by one asterisk, a note
\* in single asterisks, bold text that does not begin with the note word
MalformedLines ==
    { "[LinuxX64 DEB] (" \o Dldir \o "linuxqq_amd64.deb)\n",
      "[](" \o Dldir \o "linuxqq_amd64.deb)\n",
      "[LinuxX64 DEB](ftp://dldir1.qq.com/linuxqq_amd64.deb)\n",
      "LinuxX64 DEB](" \o Dldir \o "linuxqq_amd64.deb)\n",
      "**" \o NoteWord \o " QQ 45758 only*\n",
      "*" \o NoteWord \o " beta*\n",
      "**Note: " \o NoteWord \o "**\n" }

\* a download link and an emphasized note as the release notes write them
WellFormedLines ==
    { "[LinuxX64 DEB](" \o Dldir \o "linuxqq_amd64.deb)\n",
      "**" \o NoteWord \o ": QQ 45758 only **\n" }

\* the texts of at most n of the given lines
RECURSIVE TextsUpTo(_, _)
TextsUpTo(lines, n) ==
    IF n = 0 THEN {""}
    ELSE TextsUpTo(lines, n - 1)
            \cup {b \o l : b \in TextsUpTo(lines, n - 1), l \in lines}

\* release.body: null, empty, or text
NoteBodies ==
    {Null} \cup TextsUpTo(MalformedLines \cup WellFormedLines, MaxLines)

NoteInit ==
    /\ body \in NoteBodies
    /\ served = ""
    /\ links = << >>
    /\ versionWarning = ""
    /\ recommended = << >>
    /\ currentQQVersion = "unknown"
    /\ isAlreadyInstalled = FALSE
    /\ InstallIdle
    /\ FetchIdle
    /\ HttpIdle

NoteSpec == NoteInit /\ [][LinkNext]_vars

\* --------------------------------------- labels and addresses of links
\* labels of download links: those of the NapCatQQ release notes and labels
\* that name the platform or the architecture in another way, or not at all
LinkLabels ==
    {"9.9.26-44343 X64 Win", "LinuxX64 DEB 45758", "Linux AMD64 DEB",
     "LinuxArm64 RPM 45758", "MAC DMG 40990", "QQ ARM64", "QQ aarch64",
     "QQ"}

\* addresses of download links
LinkUrls ==
    {Dldir \o "QQ9.9.26.44343_x64.exe", Dldir \o "QQ9.9.26.44343_x86.exe",
     Dldir \o "QQ9.9.26.44343_arm64.exe",
     Dldir \o "linuxqq_3.2.25-45758_amd64.deb",
     Dldir \o "linuxqq_3.2.25-45758_aarch64.rpm",
     Dldir \o "QQ_3.2.25-45758_x86_64.rpm",
     "https://dldir1v6.qq.com/QQ_v6.9.82.40990.dmg",
     "https://im.qq.com/download"}

\* a release body of one link, plain or in bold
LabelledBodies ==
    {"[" \o label \o "](" \o url \o ")\n" : label \in LinkLabels, url \in LinkUrls}
        \cup {"**[9.9.26-44343 X64 Win]("
                  \o Dldir \o "QQ9.9.26.44343_x64.exe)**"}

DetectInit ==
    /\ body \in LabelledBodies
    /\ served = ""
    /\ links = << >>
    /\ versionWarning = ""
    /\ recommended = << >>
    /\ currentQQVersion = "unknown"
    /\ isAlreadyInstalled = FALSE
    /\ InstallIdle
    /\ FetchIdle
    /\ HttpIdle

DetectSpec == DetectInit /\ [][LinkNext]_vars

\* ------------------------------------ the running QQ and the package
\* basicInfo.getFullQQVersion() || 'unknown'
QQVersions ==
    {"unknown", "3.2.24-45758", "3.2.25-40000", "3.2.25-45758",
     "3.2.26-46000", "9.9.26-44343"}

\* a release body of at most one line
OneLineBodies == {""} \cup BodyLines

CompareInit ==
    /\ body \in OneLineBodies
    /\ served = ""
    /\ links = << >>
    /\ versionWarning = ""
    /\ recommended = << >>
    /\ currentQQVersion \in QQVersions
    /\ isAlreadyInstalled = FALSE
    /\ platform \in Platforms
    /\ arch \in NodeArchs
    /\ installProgress = IdleProgress
    /\ installRunning = FALSE
    /\ isDockerCached = "null"
    /\ tools = {}
    /\ dockerEnv = FALSE
    /\ rootlessEnv = FALSE
    /\ cpu = 0
    /\ run = << >>
    /\ HostIdle
    /\ FetchIdle
    /\ HttpIdle

CompareSpec == CompareInit /\ [][LinkNext]_vars

\* ===================================== the install pipelines on the disk
\* startInstall and the three pipelines as the files they read and write.
\* Everything after the awaited download is synchronous: DownloadSettles is
\* the whole continuation, down to the finally block of startInstall.  One
\* activation is followed at a time and the percentages of the download are
\* left out (overlapping activations and the download callbacks are the
\* subject of Spec).  The commands and file operations that fail on the host
\* are the set `failing`.
MaxInstalls == 1
MaxCalls == 2

\* ------------------------------------------------------------ versions
\* ([\d.]+-\d+) at position a of s: the position it ends at (0: no match)
VersionEndAt(s, a) ==
    LET e1 == SpanEnd(s, a, Digits \cup {"."})
        e2 == SpanEnd(s, e1 + 2, Digits)
    IN  IF e1 >= a /\ CharAt(s, e1 + 1) = "-" /\ e2 >= e1 + 2 THEN e2 ELSE 0

\* parseVersionFromUrl: /linuxqq_([\d.]+-\d+)_/, then /QQ[_-]([\d.]+-\d+)/i
ParseVersionFromUrl(url) ==
    LET at1 == {p \in 1..Len(url) :
                  /\ Slice(url, p, p + 7) = "linuxqq_"
                  /\ VersionEndAt(url, p + 8) > 0
                  /\ CharAt(url, VersionEndAt(url, p + 8) + 1) = "_"}
        at2 == {p \in 1..Len(url) :
                  /\ ToLowerCase(Slice(url, p, p + 1)) = "qq"
                  /\ CharAt(url, p + 2) \in {"_", "-"}
                  /\ VersionEndAt(url, p + 3) > 0}
    IN  IF at1 # {}
        THEN Slice(url, Least(at1) + 8, VersionEndAt(url, Least(at1) + 8))
        ELSE IF at2 # {}
        THEN Slice(url, Least(at2) + 3, VersionEndAt(url, Least(at2) + 3))
        ELSE Null

\* (mutant for C25) the build id is what stands before the first '-'
BuildIdBeforeDash(targetVersion) ==
    LET dashes == {k \in 1..Len(targetVersion) : CharAt(targetVersion, k) = "-"}
    IN  IF dashes = {} THEN targetVersion
        ELSE Slice(targetVersion, 1, Least(dashes) - 1)

\* targetVersion.split('-').pop() || ''
BuildId(targetVersion) ==
    LET dashes == {k \in 1..Len(targetVersion) : CharAt(targetVersion, k) = "-"}
    IN  IF dashes = {} THEN targetVersion
        ELSE Slice(targetVersion, Greatest(dashes) + 1, Len(targetVersion))

\* the links POST /install/start is called with
InstallLinks ==
    { [url |-> Dldir \o "linuxqq_3.2.25-45758_amd64.deb", format |-> "deb"],
      [url |-> "https://mirror.example/dldir1.qq.com/linuxqq_amd64.deb",
       format |-> "deb"],
      [url |-> Dldir \o "QQ_3.2.25-45758_x86_64.rpm", format |-> "rpm"] }

\* link.url of each link and what parseVersionFromUrl makes of it
TargetVersion ==
    [url \in {link.url : link \in InstallLinks} |-> ParseVersionFromUrl(url)]

\* the commands and file operations of the pipelines that can fail
HostFailures ==
    FatalNames \cup
    {"apt-get -f", "libnss3", "libasound2", "write package.json",
     "write loadNapCat.js", "write config.json"}

\* ------------------------------------------------ steps of a pipeline
\* A step takes and returns the pipeline's view m of the host: the disk, the
\* existence test of isRootlessMode, actualVersion, and the name of the
\* statement that threw ("": none).  A step after a throw is not executed.
Fails(name) == name \in failing

Throw(m, name) == [m EXCEPT !.err = name]

Wrote(m, path) == [m EXCEPT !.disk.written = @ \cup {path}]

\* rm -rf tmpDir; mkdirSync (docker, rootless) or mkdirSync if absent (system)
ScratchSetup(m) ==
    IF Fails("scratch setup") THEN Throw(m, "scratch setup")
    ELSE Wrote(m, TmpDir)

\* await downloadFile(...), then the two checks of the downloaded file
Downloaded(m) ==
    IF Fails("download") THEN Throw(m, "download")
    ELSE IF Fails("file missing") THEN Throw(m, "file missing")
    ELSE IF Fails("file too small") THEN Throw(m, "file too small")
    ELSE m

\* dpkg -x or rpm2cpio into tmpDir/extract, then the opt/QQ check
Extracted(topo, fmt, m) ==
    LET cmd == IF fmt = "deb" THEN "dpkg -x" ELSE "rpm2cpio"
    IN  IF m.err # "" \/ topo = "system" THEN m
        ELSE IF Fails(cmd) THEN Throw(m, cmd)
        ELSE IF Fails("opt/QQ missing") THEN Throw(m, "opt/QQ missing")
        ELSE m

\* the package.json at dir after the package's files have been copied there
\* (cp -rf replaces a file the package has and deletes none)
CopiedManifest(m, dir, package) ==
    IF package.state = "absent" THEN m.disk.manifest[dir] ELSE package

\* cp -rf extract/opt/QQ/. /opt/QQ/
DockerOverwritten(package, m) ==
    IF Fails("cp -rf") THEN Throw(m, "cp -rf")
    ELSE [Wrote(m, DOCKER_QQ_PATH) EXCEPT
            !.disk.manifest[DOCKER_QQ_PATH] =
                CopiedManifest(m, DOCKER_QQ_PATH, package)]

\* mkdirSync(baseDir); cp -rf extract/. ~/Napcat/
RootlessOverwritten(package, m) ==
    IF Fails("mkdir baseDir") THEN Throw(m, "mkdir baseDir")
    ELSE IF Fails("cp -rf") THEN Throw(m, "cp -rf")
    ELSE [Wrote(m, RootlessBaseDir) EXCEPT
            !.disk.manifest[RootlessQQPath] =
                CopiedManifest(m, RootlessQQPath, package),
            !.rootless = TRUE]

\* the command that installs the package system-wide
SystemInstallCommand(fmt, manager) ==
    IF fmt = "deb" THEN (IF manager = "apt-get" THEN "apt-get install"
                         ELSE "dpkg -i")
    ELSE (IF manager = "dnf" THEN "dnf localinstall" ELSE "rpm -Uvh")

\* the package manager installs the package to /opt/QQ; the dependency
\* commands that follow are inside a try of their own and change no file
\* that is followed here
SystemInstalled(fmt, package, m) ==
    LET cmd == SystemInstallCommand(fmt, DetectPackageManager(tools))
    IN  IF Fails(cmd) THEN Throw(m, cmd)
        ELSE [Wrote(m, DOCKER_QQ_PATH) EXCEPT
                !.disk.manifest[DOCKER_QQ_PATH] = package]

Overwritten(topo, fmt, package, m) ==
    IF m.err # "" THEN m
    ELSE IF topo = "docker" THEN DockerOverwritten(package, m)
    ELSE IF topo = "rootless" THEN RootlessOverwritten(package, m)
    ELSE SystemInstalled(fmt, package, m)

\* (mutant for C26) the version of the download URL is kept
ManifestVersionIgnored(manifest, targetVersion) == targetVersion

\* let actualVersion = targetVersion; if (pkgContent.version) ...
ManifestVersion(manifest, targetVersion) ==
    IF manifest.version # "" THEN manifest.version ELSE targetVersion

\* (mutant for C36) the Docker pipeline writes loadNapCat.js if there is none
DockerShimIfAbsent(m) ==
    IF m.disk.shim[DOCKER_QQ_PATH] # "" THEN m
    ELSE IF Fails("write loadNapCat.js") THEN m
    ELSE [Wrote(m, LoadNapCatPath(DOCKER_QQ_PATH)) EXCEPT
            !.disk.shim[DOCKER_QQ_PATH] = DockerLoadScript]

\* the Docker pipeline writes loadNapCat.js anew
DockerShim(m) ==
    IF Fails("write loadNapCat.js") THEN m
    ELSE [Wrote(m, LoadNapCatPath(DOCKER_QQ_PATH)) EXCEPT
            !.disk.shim[DOCKER_QQ_PATH] = DockerLoadScript]

\* the rootless pipeline writes loadNapCat.js if there is none
RootlessShim(m) ==
    IF m.disk.shim[RootlessQQPath] # "" THEN m
    ELSE IF Fails("write loadNapCat.js") THEN m
    ELSE [Wrote(m, LoadNapCatPath(RootlessQQPath)) EXCEPT
            !.disk.shim[RootlessQQPath] = RootlessLoadScript]

Shim(topo, m) == IF topo = "docker" THEN DockerShim(m) ELSE RootlessShim(m)

\* the inner try of the docker and rootless pipelines: read the version of
\* the installed package.json, point its main at the loader, write it, then
\* see to loadNapCat.js; an exception ends the block and is logged
Patched(topo, m) ==
    LET dir == InstallDir(topo)
        manifest == m.disk.manifest[dir]
        versioned ==
            [m EXCEPT !.actualVersion = ManifestVersion(manifest, @)]
    IN  IF m.err # "" \/ topo = "system" THEN m
        ELSE IF manifest.state = "absent" THEN Shim(topo, m)
        ELSE IF manifest.state = "corrupt" THEN m
        ELSE IF Fails("write package.json") THEN versioned
        ELSE Shim(topo,
                  [Wrote(versioned, PackageJsonPath(dir)) EXCEPT
                     !.disk.manifest[dir].main = LoaderMain])

\* (mutant for C35) a config.json that is missing or not JSON is written anew
UpdatedConfigCreates(config, targetVersion) ==
    IF Fails("write config.json") THEN config
    ELSE [config EXCEPT !.state = "ok",
                        !.baseVersion = targetVersion,
                        !.curVersion = targetVersion,
                        !.buildId = BuildId(targetVersion)]

\* the body of updateLinuxQQConfig's loop for one config.json
UpdatedConfig(config, targetVersion) ==
    IF config.state # "ok" \/ Fails("write config.json") THEN config
    ELSE [config EXCEPT !.baseVersion = targetVersion,
                        !.curVersion = targetVersion,
                        !.buildId = BuildId(targetVersion)]

Range(seq) == {seq[i] : i \in 1..Len(seq)}

\* updateLinuxQQConfig(targetVersion)
UpdateLinuxQQConfig(targetVersion, docker, d) ==
    LET dirs == Range(QQVersionConfigPaths(docker))
        done == {c \in dirs :
                   d.config[c].state = "ok" /\ ~Fails("write config.json")}
    IN  [d EXCEPT
           !.config = [c \in ConfigDirs |->
                         IF c \in dirs
                         THEN UpdatedConfig(d.config[c], targetVersion)
                         ELSE d.config[c]],
           !.written = @ \cup {ConfigFile(c) : c \in done}]

\* if (actualVersion) updateLinuxQQConfig(actualVersion)
Configured(topo, m) ==
    IF m.err # "" \/ m.actualVersion = Null \/ m.actualVersion = "" THEN m
    ELSE [m EXCEPT
            !.disk = UpdateLinuxQQConfig(m.actualVersion, topo = "docker", @)]

\* rm -rf tmpDir, at the end of the try block or in the catch block
Cleaned(m) == Wrote(m, TmpDir)

\* the code of a pipeline after its await
Continuation(topo, fmt, package, m) ==
    Cleaned(Configured(topo,
        Patched(topo,
            Overwritten(topo, fmt, package,
                Extracted(topo, fmt, Downloaded(m))))))

\* ----------------------------------------------------------- the host
View(j) ==
    [disk |-> disk, rootless |-> rootlessEnv,
     actualVersion |-> j.actualVersion, err |-> ""]

\* what the pipeline publishes when it ends
FinalProgress(m) ==
    IF m.err = "" THEN UpdateProgress("done", 100, DoneExtra)
    ELSE CatchProgress(m.err)

\* what isDocker() and isRootlessMode() answer to the caller
Classification(by) ==
    [by |-> by, isDocker |-> IsDocker,
     isRootless |-> IF platform = "linux" THEN IsRootlessMode ELSE FALSE]

\* what no step of the host model touches
hostFixed == << platform, arch, tools, cpu, run, fetchVars, httpVars, linkVars >>

\* GET /install/info: getQQInstallInfo reports the topology
GetQQInstallInfo ==
    /\ Len(seen) < MaxCalls
    /\ seen' = Append(seen, Classification("getQQInstallInfo"))
    /\ isDockerCached' = IsDockerCacheAfter
    /\ UNCHANGED << installProgress, installRunning, dockerEnv, rootlessEnv,
                    disk, failing, job, hostFixed >>

\* POST /install/start, up to the await of the pipeline startInstall chose:
\* the checks of the pipeline throw before its try block, or the scratch
\* directory cannot be prepared and the catch block runs, or the download
\* is started
StartInstall(link, package) ==
    /\ job.pc \in {"idle", "ended"}
    /\ job.n < MaxInstalls
    /\ Len(seen) < MaxCalls
    /\ StartEnters
    /\ LET topo == Topology
           begun == [job EXCEPT !.n = @ + 1, !.topo = topo, !.link = link,
                                !.package = package,
                                !.targetVersion = TargetVersion[link.url],
                                !.actualVersion = TargetVersion[link.url],
                                !.err = "", !.before = disk]
           fresh == [disk EXCEPT !.written = {}]
           m == ScratchSetup([View(begun) EXCEPT !.disk = fresh])
       IN  /\ seen' = Append(seen, Classification("startInstall"))
           /\ isDockerCached' = IsDockerCacheAfter
           /\ installRunning' = FALSE
           /\ IF PreCheck(topo, link.format) # ""
              THEN /\ installProgress' = ResetInstallProgress.progress
                   /\ job' = [begun EXCEPT !.pc = "ended",
                                           !.err = PreCheck(topo, link.format)]
                   /\ disk' = fresh
              ELSE IF m.err # ""
              THEN /\ installProgress' = FinalProgress(m)
                   /\ job' = [begun EXCEPT !.pc = "ended", !.err = m.err]
                   /\ disk' = Cleaned(m).disk
              ELSE /\ installProgress' =
                         UpdateProgress("downloading", 5,
                             [NoExtra EXCEPT !.downloadedBytes = 0,
                                             !.totalBytes = 0])
                   /\ job' = [begun EXCEPT !.pc = "download"]
                   /\ disk' = m.disk
    /\ UNCHANGED << dockerEnv, rootlessEnv, failing, hostFixed >>

\* downloadFile settles: the rest of the pipeline and the finally block
DownloadSettles ==
    /\ job.pc = "download"
    /\ LET m == Continuation(job.topo, job.link.format, job.package, View(job))
       IN  /\ installProgress' = FinalProgress(m)
           /\ installRunning' = FALSE
           /\ disk' = m.disk
           /\ rootlessEnv' = m.rootless
           /\ job' = [job EXCEPT !.pc = "ended",
                                 !.actualVersion = m.actualVersion,
                                 !.err = m.err]
    /\ UNCHANGED << isDockerCached, dockerEnv, failing, seen, hostFixed >>

\* files and directories appear or disappear on the host: what
\* isDockerEnvironment and the existence test of isRootlessMode would find
\* changes
HostChanges(docker, rootless) ==
    /\ << docker, rootless >> # << dockerEnv, rootlessEnv >>
    /\ dockerEnv' = docker
    /\ rootlessEnv' = rootless
    /\ UNCHANGED << installProgress, installRunning, isDockerCached, disk,
                    failing, seen, job, hostFixed >>

\* the tools of a Debian-like and of a Fedora-like host
HostTools == { {"dpkg", "apt-get"}, {"rpm", "dnf", "rpm2cpio", "cpio"} }

\* one failing command or operation, none, or every dependency command
FailureSets ==
    {{}} \cup {{f} : f \in HostFailures}
         \cup {{"apt-get -f", "libnss3", "libasound2"}}

\* the disk of a host where QQ runs with NapCat injected: the package.json
\* of the installation points at the loader
InstalledManifest ==
    [state |-> "ok", version |-> "3.2.24-44000", main |-> LoaderMain]

\* the disks the plugin is loaded on, given what the detection would find
InitialDisks(docker, rootless) ==
    LET dir == IF docker \/ ~rootless THEN DOCKER_QQ_PATH ELSE RootlessQQPath
        script == IF docker THEN DockerLoadScript ELSE RootlessLoadScript
        home == PathJoin(Home, ".config/QQ/versions")
        data == PathJoin(DOCKER_QQ_DATA_PATH, "versions")
    IN  { [EmptyDisk EXCEPT !.manifest[dir] = InstalledManifest,
                            !.shim[dir] = s,
                            !.config[home] = h,
                            !.config[data] = c] :
            s \in {"", script} \cup (IF docker THEN {ImageLoadScript} ELSE {}),
            h \in {NoConfig, OldConfig, CorruptConfig},
            c \in IF docker THEN {NoConfig, OldConfig, CorruptConfig}
                  ELSE {NoConfig} }

\* ... with the loader in place and every config.json of the topology
InjectedDisk(docker, rootless) ==
    CHOOSE d \in InitialDisks(docker, rootless) :
        /\ \E dir \in InstallDirs :
              d.shim[dir] \in {DockerLoadScript, RootlessLoadScript}
        /\ \A c \in Range(QQVersionConfigPaths(docker)) :
              d.config[c] = OldConfig

HostInit ==
    /\ installProgress = IdleProgress
    /\ installRunning = FALSE
    /\ isDockerCached = "null"
    /\ platform = "linux"
    /\ arch = "x64"
    /\ dockerEnv \in BOOLEAN
    /\ rootlessEnv \in BOOLEAN
    /\ cpu = 0
    /\ run = << >>
    /\ \/ /\ failing = {}
          /\ tools \in HostTools
          /\ disk \in InitialDisks(dockerEnv, rootlessEnv)
       \/ /\ failing \in FailureSets
          /\ tools = {"dpkg", "apt-get"}
          /\ disk = InjectedDisk(dockerEnv, rootlessEnv)
    /\ seen = << >>
    /\ job = IdleJob
    /\ FetchIdle
    /\ HttpIdle
    /\ LinkIdle

HostNext ==
    \/ \E link \in InstallLinks, package \in PackageManifests :
          StartInstall(link, package)
    \/ DownloadSettles

HostSpec == HostInit /\ [][HostNext]_vars

\* ------------------------------------- the host changes under the plugin
TopologyInit ==
    /\ HostInit
    /\ tools = {"dpkg", "apt-get"}
    /\ failing = {}
    /\ disk.shim = EmptyDisk.shim
    /\ \A c \in ConfigDirs : disk.config[c] = NoConfig

TopologyNext ==
    \/ HostNext
    \/ GetQQInstallInfo
    \/ \E docker \in BOOLEAN, rootless \in BOOLEAN :
          HostChanges(docker, rootless)

TopologySpec == TopologyInit /\ [][TopologyNext]_vars

\* ============================================================== claims
InProgress == {r \in Runs : Active(r)}

\* r's request is handled in this step
Handled(r) == run[r].pc = "new" /\ run'[r].pc # "new"

\* r's activation ends in this step
Ends(r) == run[r].pc = "finally" /\ run'[r].pc = "ended"

\* r calls updateProgress in this step
Publishes(r) == run'[r].pub # run[r].pub

\* C1: at most one install pipeline is in progress at any time: while a run
\* is between the start of its pipeline and done or error, no other
\* startInstall call begins a pipeline.
C1_AtMostOnePipeline == Cardinality(InProgress) <= 1

\* C2: a start-install request handled while a run is active is rejected,
\* and InstallProgress is the same record after the request as before it.
C2_StartWhileActiveRejected ==
    [][\A r \in Runs :
          (Handled(r) /\ InProgress # {}) =>
              /\ run'[r].resp # "started"
              /\ installProgress' = installProgress]_vars

\* the stages C3 names: download, size check, extraction, file overwrite,
\* manifest/loader patch, package-manager call, config patch
C3_ClaimedStages ==
    (FatalNames \ {"scratch setup"}) \cup {"patch", "config"}

FailedRunOutcome ==
    /\ ~installRunning'
    /\ installProgress'.stage = "error"
    /\ installProgress'.error # ""

C4_BusyStageHoldsFlag ==
    installProgress.stage \in {"downloading", "extracting", "installing"}
        => installRunning

\* the stage that follows s in the order C5 states
C5_ClaimedNext(s) ==
    CASE s = "idle" -> "downloading"
      [] s = "downloading" -> "extracting"
      [] s = "extracting" -> "installing"
      [] s = "installing" -> "done"
      [] OTHER -> "none"

\* the stage that follows s in a run of the given topology
C5_NextStage(topo, s) ==
    IF topo = "system" /\ s = "downloading" THEN "installing"
    ELSE C5_ClaimedNext(s)

\* C5 as stated: in every topology the stages a run publishes follow
\* idle -> downloading -> extracting -> installing -> done with no stage
\* skipped or revisited; the only other transition is to error.
C5_StagesInClaimedOrder ==
    [][\A r \in Runs :
          (Publishes(r) /\ run'[r].pub.stage # run[r].pub.stage) =>
              \/ run'[r].pub.stage = "error"
              \/ run'[r].pub.stage = C5_ClaimedNext(run[r].pub.stage)]_vars

\* C5 (amended): the stages a run publishes follow idle -> downloading ->
\* extracting -> installing -> done in the containerized and the
\* unprivileged-local topology and idle -> downloading -> installing -> done
\* (no extracting stage) in the system-wide topology; the only other
\* transition is to error, and each published stage is the stage the record
\* then holds.
C5_StagesInTopologyOrder ==
    [][\A r \in Runs :
          Publishes(r) =>
              /\ installProgress'.stage = run'[r].pub.stage
              /\ run'[r].pub.stage # run[r].pub.stage =>
                    \/ run'[r].pub.stage = "error"
                    \/ run'[r].pub.stage =
                          C5_NextStage(run'[r].topo, run[r].pub.stage)]_vars

\* C5 witness: a system-wide run has gone through its stages and published
\* done.
C5_Witness ==
    /\ \E r \in Runs :
          /\ run[r].topo = "system"
          /\ run[r].pc = "finally"
          /\ run[r].pub.stage = "done"
    /\ installProgress.stage = "done"

\* C6: from one progress update of a run to its next the percent never
\* decreases, whatever the download callbacks report (unknown total size
\* included), except for the reset to 0 that comes with stage error; the
\* published percent is the percent the record then holds.
C6_PercentMonotone ==
    [][\A r \in Runs :
          Publishes(r) =>
              /\ installProgress'.percent = run'[r].pub.percent
              /\ \/ run'[r].pub.percent >= run[r].pub.percent
                 \/ /\ run'[r].pub.stage = "error"
                    /\ run'[r].pub.percent = 0]_vars

\* C6 witness: a download of unknown total size has reported its bytes and
\* the record shows the 10 percent its callback published.
C6_Witness ==
    \E r \in Runs :
        /\ run[r].pc = "download"
        /\ run[r].total = 0
        /\ run[r].bytes = MaxBytes
        /\ run[r].pub.percent = 10
        /\ installProgress.downloadedBytes = run[r].bytes
        /\ installProgress.percent = 10

\* C7: when the stage is done the percent is 100 and finishedAt is set;
\* when the stage is not done no finishedAt is present.
C7_DoneHasTimestamp ==
    /\ installProgress.stage = "done" =>
          installProgress.percent = 100 /\ installProgress.finishedAt # 0
    /\ installProgress.stage # "done" => installProgress.finishedAt = 0

\* C7 witness: a run has published done.
C7_Witness ==
    /\ installProgress.stage = "done"
    /\ \E r \in Runs : run[r].pc = "finally" /\ run[r].pub.stage = "done"

C9_PlatformMessage(p) ==
    IF p = "win32" THEN "400 windows unsupported" ELSE "400 macos unsupported"

\* C9: on Windows and macOS every start-install request is answered with
\* the platform's own message, no pipeline step runs, InstallProgress stays
\* idle and the running flag stays false.
C9_UnsupportedPlatformRejected ==
    platform \in {"win32", "darwin"} =>
        /\ installProgress = IdleProgress
        /\ ~installRunning
        /\ \A r \in Runs :
              /\ run[r].pc \in {"new", "ended"}
              /\ run[r].thrown = ""
              /\ Started(r) => run[r].resp = C9_PlatformMessage(platform)

\* C9 witness: a request on macOS has been answered with the macOS message.
C9_Witness ==
    /\ platform = "darwin"
    /\ \E r \in Runs : run[r].resp = "400 macos unsupported"

\* C10: a start-install request whose package format the local tools cannot
\* handle is not answered "started", and it leaves InstallProgress and the
\* running flag as they were.
C10_BadFormatRejected ==
    [][\A r \in Runs :
          (Handled(r) /\ run'[r].thrown \in FormatReasons) =>
              /\ run'[r].resp # "started"
              /\ installProgress' = installProgress
              /\ installRunning' = installRunning]_vars

\* C11: a reset-install request issued while an install run is active takes
\* no effect: it leaves the stored progress and the running flag as they
\* were (and no run's position changes: the in-flight run is not aborted).
\* The reset request is the only step that moves no run.
C11_ResetInertWhileActive ==
    [][(run' = run /\ InProgress # {}) =>
          /\ installProgress' = installProgress
          /\ installRunning' = installRunning]_vars

\* ------------------------------------------------------ release fetcher
\* call f begins in this step
Begins(f) == fetch[f].pc = "new" /\ fetch'[f].pc # "new"

\* the cache a call that begins in this step reads (a refresh request has
\* cleared it by then) holds a descriptor stored under the call's key less
\* than 5 minutes ago
C12_FreshEntry(f) ==
    /\ releaseCache'.data # Null
    /\ releaseCache'.version = fetch'[f].key
    /\ now - releaseCache'.timestamp < 5

\* C12: a release resolution issues no network request when the cache holds
\* a descriptor stored under the same resolution key less than 5 minutes
\* ago, and then returns that descriptor; it issues a network request when
\* the entry is 5 minutes old or older, was stored under another key, or is
\* absent.
C12_CacheShortCircuits ==
    [][\A f \in Fetches :
          Begins(f) =>
              IF C12_FreshEntry(f)
              THEN /\ fetch'[f].calls = << >>
                   /\ fetch'[f].pc = "done"
                   /\ fetch'[f].result = releaseCache'.data
              ELSE /\ Len(fetch'[f].calls) = 1
                   /\ fetch'[f].pc # "done"]_vars

\* C12 witness: a call has been answered from the cache, without a request,
\* with the descriptor an earlier call with the same key fetched.
C12_Witness ==
    \E f, g \in Fetches :
        /\ fetch[g].pc = "done" /\ fetch[g].calls # << >>
        /\ fetch[f].pc = "done" /\ fetch[f].calls = << >>
        /\ fetch[f].key = fetch[g].key
        /\ fetch[f].result = fetch[g].result
        /\ fetch[f].result # Null

\* C13: any two release resolutions with the same version hint made within
\* the 5-minute window issue at most one network call in total, whatever
\* the lookups answer and whether or not the two overlap.  (While fewer than
\* 5 minutes have passed, every two calls are within the window.)
C13_AtMostOneCall ==
    now < 5 =>
        \A f, g \in Fetches :
            (/\ f # g
             /\ fetch[f].pc # "new"
             /\ fetch[g].pc # "new"
             /\ fetch[f].key = fetch[g].key) =>
                Len(fetch[f].calls) + Len(fetch[g].calls) <= 1

\* the version number a hint names
C14_Version(key) ==
    IF StartsWith(key, "v") THEN SubSeq(key, 2, Len(key)) ELSE key

C14_NoHint(key) == key \in {"latest", "unknown"}

\* C14: a call that misses the cache with a known version hint requests the
\* exact tag v<version> first, the alternate-casing tag V<version> only
\* after the exact lookup failed, and the latest release only after both tag
\* lookups failed; with no hint it requests the latest release only.  When
\* both tag lookups fail and latest succeeds the latest descriptor is
\* returned and nothing is raised.
C14_LookupOrder ==
    \A f \in Fetches :
        LET c == fetch[f].calls
            o == fetch[f].outs
        IN  /\ Len(c) <= 3
            /\ Len(o) <= Len(c)
            /\ (c # << >> /\ C14_NoHint(fetch[f].key)) =>
                  c = << "/releases/latest" >>
            /\ (c # << >> /\ ~C14_NoHint(fetch[f].key)) =>
                  /\ c[1] = "/releases/tags/v" \o C14_Version(fetch[f].key)
                  /\ Len(c) >= 2 =>
                        /\ o[1] = "failed"
                        /\ c[2] = "/releases/tags/V"
                                      \o C14_Version(fetch[f].key)
                  /\ Len(c) = 3 =>
                        /\ o[1] = "failed" /\ o[2] = "failed"
                        /\ c[3] = "/releases/latest"
            /\ (Len(o) = 3 /\ o[3] = "ok") =>
                  /\ fetch[f].pc = "done"
                  /\ fetch[f].result = LatestTag
                  /\ fetch[f].raised = ""

\* C14 witness: both tag lookups of a call failed, its third request was for
\* the latest release, and the call returned that release.
C14_Witness ==
    \E f \in Fetches :
        /\ fetch[f].pc = "done"
        /\ Len(fetch[f].calls) = 3
        /\ fetch[f].outs = << "failed", "failed", "ok" >>
        /\ fetch[f].result = LatestTag

\* C15: fetchMatchingRelease never raises to its caller: whatever way each
\* lookup fails, a call that has returned has returned a descriptor or null,
\* and null only when every lookup of its fallback chain (three with a known
\* hint, the latest lookup alone without) has failed; the caller,
\* getVersionMatchResult, then answers null as well.
C15_NeverRaises ==
    \A f \in Fetches :
        /\ fetch[f].raised = ""
        /\ fetch[f].pc = "done" =>
              /\ fetch[f].result # ""
              /\ (GetVersionMatchResult(fetch[f].result) = Null)
                    = (fetch[f].result = Null)
              /\ fetch[f].result = Null =>
                    /\ Len(fetch[f].calls) =
                          IF C14_NoHint(fetch[f].key) THEN 1 ELSE 3
                    /\ Len(fetch[f].outs) = Len(fetch[f].calls)
                    /\ \A i \in 1..Len(fetch[f].outs) :
                          fetch[f].outs[i] = "failed"

\* C15 witness: all three lookups of a call failed and the call returned
\* null.
C15_Witness ==
    \E f \in Fetches :
        /\ fetch[f].pc = "done"
        /\ fetch[f].result = Null
        /\ fetch[f].raised = ""
        /\ fetch[f].outs = << "failed", "failed", "failed" >>

\* ---------------------------------------------------- outbound requests
\* C16: every outbound request, metadata and download alike, follows at most
\* a fixed number of redirects and fails beyond it: a server that answers
\* every request with a redirect (here MaxHops times in a row, more than the
\* 5 that downloadFile allows) is not followed to the end of its chain.
C16_RedirectsBounded ==
    \A q \in Requests : request[q].followed < MaxHops

\* ----------------------------------- link parser and platform matcher
\* C17: for every release body, parseDownloadLinks returns no candidate
\* whose URL contains an excluded domain (github.com, aka.ms,
\* napneko.github.io), and every candidate it returns has a non-empty label
\* and a non-empty url.
C17_NoExcludedNoEmpty ==
    \A i \in 1..Len(links) :
        /\ ~Includes(links[i].url, "github.com")
        /\ ~Includes(links[i].url, "aka.ms")
        /\ ~Includes(links[i].url, "napneko.github.io")
        /\ links[i].label # ""
        /\ links[i].url # ""

\* the host of an http(s) URL: what stands between the scheme and the first
\* "/", "?" or "#"
C18_Host(url) ==
    LET from == SchemeAt(url, 1) + 1
        stops == {p \in from..Len(url) : CharAt(url, p) \in {"/", "?", "#"}}
        to == IF stops = {} THEN Len(url)
              ELSE (CHOOSE p \in stops : \A q \in stops : p <= q) - 1
    IN  Slice(url, from, to)

\* C18: the host of every candidate parseDownloadLinks returns is a qq.com
\* host; a link to another host is not returned, wherever else "qq.com"
\* stands in its URL.
C18_HostIsQQ ==
    \A i \in 1..Len(links) :
        \/ C18_Host(links[i].url) = "qq.com"
        \/ EndsWith(C18_Host(links[i].url), ".qq.com")

\* the platform the running OS maps to, as C19 has it
C19_MappedPlatform ==
    CASE platform = "win32" -> "windows"
      [] platform = "linux" -> "linux"
      [] platform = "darwin" -> "mac"
      [] OTHER -> "unknown"

\* C19: whatever the candidates and the running OS (one that maps to no
\* known platform included), filterLinksForCurrentPlatform returns no
\* candidate whose platform differs from the one the running OS maps to.
C19_OnlyMappedPlatform ==
    served = "/version/recommended" =>
        \A i \in 1..Len(recommended) :
            /\ recommended[i].platform = C19_MappedPlatform
            /\ \E j \in 1..Len(links) : links[j] = recommended[i]

\* C19 witness: on an OS that maps to no known platform the candidates of
\* unknown platform have been returned and a candidate for a known platform
\* has been left out.
C19_Witness ==
    /\ served = "/version/recommended"
    /\ platform = "freebsd"
    /\ recommended # << >>
    /\ \E j \in 1..Len(links) : links[j].platform = "linux"

\* the architecture the running process maps to
C20_MappedArch ==
    CASE arch = "x64" -> "x64"
      [] arch = "arm64" -> "arm64"
      [] OTHER -> "unknown"

\* the candidates C20 says are kept
C20_ClaimedKeeps(link) ==
    /\ link.platform = C19_MappedPlatform
    /\ link.arch = C20_MappedArch \/ link.arch = "unknown"

\* C20 as stated: filterLinksForCurrentPlatform returns exactly the
\* subsequence of its input, in the original order, of the candidates whose
\* platform matches and whose architecture equals the running architecture
\* or is unknown.
C20_ExactSubsequence ==
    served = "/version/recommended" =>
        recommended = SelectSeq(links, C20_ClaimedKeeps)

C20_AmendedKeeps(link) ==
    /\ link.platform = C19_MappedPlatform
    /\ \/ C20_MappedArch = "unknown"
       \/ link.arch = C20_MappedArch
       \/ link.arch = "unknown"

\* C20 (amended): filterLinksForCurrentPlatform returns exactly the
\* subsequence of its input, in the original order, of the candidates whose
\* platform matches and whose architecture equals the running architecture
\* or is unknown; when the running architecture itself maps to no known
\* architecture, every candidate of the matching platform is kept.
C20_PermissiveSubsequence ==
    served = "/version/recommended" =>
        recommended = SelectSeq(links, C20_AmendedKeeps)

\* C20 witness: on a Linux host of an architecture that maps to none, the
\* x64 and the arm64 candidate have both been returned, in the order of the
\* release body.
C20_Witness ==
    /\ served = "/version/recommended"
    /\ platform = "linux"
    /\ arch = "ia32"
    /\ Len(recommended) = 2
    /\ recommended[1].arch = "arm64"
    /\ recommended[2].arch = "x64"
    /\ recommended = links

\* the lines of a body that link the package C21 names, and those that link
\* a disk image
C21_DebLines ==
    {l \in BodyLines : Includes(l, "linuxqq_3.2.25-45758_amd64.deb)")}

C21_DmgLines == {l \in BodyLines : Includes(l, ".dmg)")}

\* a body with one link to the deb package and one to a .dmg, in either order
C21_Bodies ==
    {a \o b : a \in C21_DebLines, b \in C21_DmgLines}
        \cup {b \o a : a \in C21_DebLines, b \in C21_DmgLines}

\* C21: for a release body with a linuxqq_3.2.25-45758_amd64.deb link and a
\* .dmg link, parsing followed by filtering on linux/x64 returns exactly one
\* candidate, the deb one.
C21_DebOnlyOnLinuxX64 ==
    (/\ served = "/version/recommended"
     /\ platform = "linux"
     /\ arch = "x64"
     /\ body \in C21_Bodies)
        => /\ Len(recommended) = 1
           /\ recommended[1].url = Dldir \o "linuxqq_3.2.25-45758_amd64.deb"
           /\ recommended[1].format = "deb"
           /\ recommended[1].platform = "linux"

\* C21 witness: the recommended route has answered for such a body on
\* linux/x64, the parser found both links and the answer holds one candidate.
C21_Witness ==
    /\ served = "/version/recommended"
    /\ platform = "linux"
    /\ arch = "x64"
    /\ body \in C21_Bodies
    /\ Len(links) = 2
    /\ \E i \in 1..2 : links[i].format = "dmg"
    /\ Len(recommended) = 1

\* bodies in which no download link and no emphasized note is well formed
C22_Malformed == {Null} \cup TextsUpTo(MalformedLines, MaxLines)

\* C22: for an empty, absent or malformed release body (no well-formed link,
\* no emphasized note), parseDownloadLinks returns the empty sequence and
\* parseVersionWarning returns the empty string, and neither raises: the
\* route that called them is served.
C22_MalformedGivesEmpty ==
    (served # "" /\ body \in C22_Malformed)
        => /\ links = << >>
           /\ versionWarning = ""
           /\ recommended = << >>

\* C22 witness: a body made of malformed lines, one close to a link and one
\* close to a note, has been parsed with empty results.
C22_Witness ==
    /\ served = "/version"
    /\ body \in C22_Malformed
    /\ Includes(body, "](")
    /\ Includes(body, "**" \o NoteWord)
    /\ links = << >>
    /\ versionWarning = ""

\* the topology a classification stands for
TopologyOf(c) ==
    IF c.isDocker THEN "docker" ELSE IF c.isRootless THEN "rootless"
    ELSE "system"

\* the classification the activation that is followed made
JobClassification ==
    seen[Greatest({i \in 1..Len(seen) : seen[i].by = "startInstall"})]

\* the run has ended in done
JobDone == job.pc = "ended" /\ job.err = "" /\ installProgress.stage = "done"

\* C23: the classification is three-way and exclusive: no classification
\* answers both containerized and unprivileged-local; startInstall runs the
\* containerized pipeline if containerized, else the unprivileged-local one
\* if that check holds, else the system-wide one (a pipeline that has run to
\* done has overwritten the install directory of its topology, and only the
\* containerized and the unprivileged-local one patch package.json).
C23_ThreeWayExclusive ==
    /\ \A i \in 1..Len(seen) : ~(seen[i].isDocker /\ seen[i].isRootless)
    /\ job.n > 0 => job.topo = TopologyOf(JobClassification)
    /\ JobDone =>
          /\ job.topo = "docker" =>
                /\ DOCKER_QQ_PATH \in disk.written
                /\ job.package.state = "ok" =>
                      PackageJsonPath(DOCKER_QQ_PATH) \in disk.written
          /\ job.topo = "rootless" =>
                /\ RootlessBaseDir \in disk.written
                /\ DOCKER_QQ_PATH \notin disk.written
                /\ job.package.state = "ok" =>
                      PackageJsonPath(RootlessQQPath) \in disk.written
          /\ job.topo = "system" =>
                /\ DOCKER_QQ_PATH \in disk.written
                /\ \A dir \in InstallDirs :
                      /\ LoadNapCatPath(dir) \notin disk.written
                      /\ PackageJsonPath(dir) \notin disk.written

\* C23 witness: on a host that is a container and has the per-user
\* installation too, startInstall has classified the target as containerized
\* only and its containerized pipeline has run to done.
C23_Witness ==
    /\ JobDone
    /\ dockerEnv
    /\ rootlessEnv
    /\ JobClassification.isDocker
    /\ ~JobClassification.isRootless
    /\ job.topo = "docker"

\* C24: within one process every later classification, by getQQInstallInfo
\* or by startInstall, answers the same topology as the first one, even if
\* the filesystem or the environment changed in between.
C24_TopologyFixed ==
    \A i \in 1..Len(seen) : TopologyOf(seen[i]) = TopologyOf(seen[1])

\* the config.json files updateLinuxQQConfig looks at in the run's topology
JobConfigDirs == Range(QQVersionConfigPaths(job.topo = "docker"))

\* config.json c holds the version v as updateLinuxQQConfig writes it (the
\* versions of the model end in '-' and a build number of five digits)
HoldsVersion(c, v) ==
    /\ disk.config[c].curVersion = v
    /\ disk.config[c].baseVersion = v
    /\ disk.config[c].buildId = SubSeq(v, Len(v) - 4, Len(v))
    /\ CharAt(v, Len(v) - 5) = "-"

Patchable(c) ==
    /\ job.actualVersion \notin {Null, ""}
    /\ job.before.config[c].state = "ok"
    /\ ~Fails("write config.json")

PatchedConfigs == {c \in JobConfigDirs : Patchable(c)}

\* C26: the version written to the version-config file follows the
\* topology's source of truth: in an unprivileged-local run the version of
\* the extracted package's manifest whenever that manifest has one, even
\* when the URL-derived version differs; in a system-wide run the version
\* parsed from the download URL.
C26_VersionSource ==
    JobDone =>
        /\ (/\ job.topo = "rootless"
            /\ job.package.state = "ok"
            /\ job.package.version # "") =>
                /\ job.actualVersion = job.package.version
                /\ \A c \in PatchedConfigs :
                      disk.config[c].curVersion = job.package.version
        /\ job.topo = "system" =>
                /\ job.actualVersion = ParseVersionFromUrl(job.link.url)
                /\ \A c \in PatchedConfigs :
                      disk.config[c].curVersion =
                          ParseVersionFromUrl(job.link.url)

\* C26 witness: an unprivileged-local run of a package whose manifest names
\* another version than its URL has ended in done, and config.json holds the
\* version of the manifest.
C26_Witness ==
    /\ JobDone
    /\ job.topo = "rootless"
    /\ job.targetVersion = "3.2.25-45758"
    /\ job.package.version = "3.2.26-46000"
    /\ PatchedConfigs # {}
    /\ \A c \in PatchedConfigs : disk.config[c].curVersion = "3.2.26-46000"

\* C27: every containerized or unprivileged-local run that ends in done
\* leaves the package.json of the installation with main pointing at
\* ./loadNapCat.js and leaves a loadNapCat.js in place.
C27_InjectionKept ==
    (JobDone /\ job.topo \in {"docker", "rootless"}) =>
        /\ disk.manifest[InstallDir(job.topo)].state = "ok"
        /\ disk.manifest[InstallDir(job.topo)].main = LoaderMain
        /\ disk.shim[InstallDir(job.topo)] # ""

\* what the run has written
JobWritten == disk.written

\* C28: no step of a containerized run, whether it ends in done or in
\* error, writes in /app/napcat; the run writes only the install directory
\* of the application, the version-config files and the scratch directory.
C28_NapCatUntouched ==
    (job.n > 0 /\ job.topo = "docker") =>
        \A p \in JobWritten :
            /\ ~StartsWith(p, DOCKER_NAPCAT_PATH)
            /\ \/ StartsWith(p, DOCKER_QQ_PATH)
               \/ p = TmpDir
               \/ p \in {ConfigFile(c) : c \in ConfigDirs}

\* C28 witness: a containerized run has ended in done after writing the
\* install directory, package.json, loadNapCat.js, a config.json and the
\* scratch directory.
C28_Witness ==
    /\ JobDone
    /\ job.topo = "docker"
    /\ {TmpDir, DOCKER_QQ_PATH, PackageJsonPath(DOCKER_QQ_PATH),
        LoadNapCatPath(DOCKER_QQ_PATH)} \subseteq JobWritten
    /\ \E c \in ConfigDirs : ConfigFile(c) \in JobWritten

\* ------------------------------------------------------------------ C29
\* the secondary dependency-install commands of the system-wide pipeline
DependencyCommands == {"apt-get -f", "libnss3", "libasound2"}

\* a system-wide run is about to leave startInstall
SystemRunEnds(r) ==
    /\ cpu = r
    /\ run[r].pc = "finally"
    /\ run[r].topo = "system"

\* C29: in a system-wide run, a failure of the secondary dependency-install
\* commands never fails the run: when no statement other than those (and the
\* config and cleanup steps, which are non-fatal too) has failed, so that the
\* package install itself succeeded, the run ends in done, whatever the
\* outcome of each dependency command.
C29_DependenciesNonFatal ==
    \A r \in Runs :
        SystemRunEnds(r) /\ run[r].faults \cap FatalNames = {}
            => /\ installProgress.stage = "done"
               /\ installProgress.percent = 100
               /\ run[r].err = ""

\* a system-wide run ends in done although a dependency command failed
C29_Witness ==
    \E r \in Runs :
        /\ SystemRunEnds(r)
        /\ run[r].faults \cap DependencyCommands # {}
        /\ installProgress.stage = "done"

\* ------------------------------------------------------------------ C30
\* the numeric version segments of a full version string (what stands before
\* the last '-')
NumericSegments(version) ==
    LET dashes == {k \in 1..Len(version) : CharAt(version, k) = "-"}
    IN  IF dashes = {} THEN version
        ELSE Slice(version, 1, Greatest(dashes) - 1)

\* the running QQ has the numeric version segments of the package the first
\* recommended link names and a lower build number
LowerBuildRuns ==
    /\ served = "/version/recommended"
    /\ recommended # << >>
    /\ currentQQVersion # "unknown"
    /\ LET packageVersion == ParseVersionFromUrl(recommended[1].url)
       IN  /\ packageVersion # Null
           /\ NumericSegments(currentQQVersion) = NumericSegments(packageVersion)
           /\ NumberOrZero(BuildId(currentQQVersion))
                < NumberOrZero(BuildId(packageVersion))

\* C30: the already-installed check compares the running QQ version with the
\* recommended version down to the build number: when the running version has
\* the same numeric version segments as the recommended package but a lower
\* build number, isAlreadyInstalled is false.
C30_LowerBuildNotInstalled == LowerBuildRuns => ~isAlreadyInstalled

\* ------------------------------------------------------------------ C31
\* the numeric segments of a version string
Segments(version) ==
    [k \in 1..Len(SplitVersion(version)) |->
        NumberOrZero(SplitVersion(version)[k])]

\* segment k of a sequence of segments, a missing one counting as zero
SegmentAt(segs, k) == IF k \in DOMAIN segs THEN segs[k] ELSE 0

\* a >= b in the order of the first differing segment
SegmentsAtLeast(a, b) ==
    LET differ == {k \in DOMAIN a \cup DOMAIN b :
                     SegmentAt(a, k) # SegmentAt(b, k)}
    IN  \/ differ = {}
        \/ SegmentAt(a, Least(differ)) > SegmentAt(b, Least(differ))

\* the target version the route parsed from the first recommended link
RouteTarget == TargetVer(recommended[1].url)

OneLinkParsed == served # "" /\ Len(links) = 1

\* the platform the rule of C32 gives a (label, url) pair
PlatformByRule(label, url) ==
    IF \/ Includes(ToLowerCase(label), "win")
       \/ EndsWith(ToLowerCase(url), ".exe")
    THEN "windows"
    ELSE IF \/ Includes(ToLowerCase(label), "linux")
            \/ Includes(ToLowerCase(url), "linuxqq")
    THEN "linux"
    ELSE IF \/ Includes(ToLowerCase(label), "mac")
            \/ Includes(ToLowerCase(url), ".dmg")
    THEN "mac"
    ELSE "unknown"

\* C32: detectPlatform classifies a (label, url) pair by first match in the
\* order windows, linux, mac: windows when the label contains 'win' or the url
\* has an executable suffix, else linux when the label contains 'linux' or the
\* url contains 'linuxqq', else mac when the label contains 'mac' or the url
\* contains '.dmg', else unknown.
C32_PlatformByFirstMatch ==
    OneLinkParsed =>
        links[1].platform = PlatformByRule(links[1].label, links[1].url)

\* ------------------------------------------------------------------ C33
\* the architecture the rule of C33 gives a (label, url) pair
ArchByRule(label, url) ==
    LET Has(token) == \/ Includes(ToLowerCase(label), token)
                      \/ Includes(ToLowerCase(url), token)
    IN  IF Has("arm64") \/ Has("aarch64") THEN "arm64"
        ELSE IF Has("x64") \/ Has("x86_64") \/ Has("amd64") THEN "x64"
        ELSE "unknown"

\* C33: detectArch returns arm64 when the label or the url contains 'arm64'
\* or 'aarch64', otherwise x64 when the label or the url contains 'x64',
\* 'x86_64' or 'amd64', otherwise unknown, for every (label, url) pair.
C33_ArchByToken ==
    OneLinkParsed => links[1].arch = ArchByRule(links[1].label, links[1].url)

\* ------------------------------------------------------------------ C34
\* the percentages of a stage, the installing stage beginning at `from`
StageRange(stage, from) ==
    IF stage \in {"idle", "error"} THEN {0}
    ELSE IF stage = "downloading" THEN 5..55
    ELSE IF stage = "extracting" THEN 55..65
    ELSE IF stage = "installing" THEN from..95
    ELSE IF stage = "done" THEN {100}
    ELSE {}

\* C34 as stated: in every reachable state InstallProgress.percent lies in
\* 0..100 and in the range of the current stage: 0 for idle and error, 5..55
\* while downloading, 55..65 while extracting, 65..95 while installing, 100
\* for done, in every topology.
C34_PercentInStageRange ==
    /\ installProgress.percent \in 0..100
    /\ installProgress.percent \in StageRange(installProgress.stage, 65)

\* C34 amended: ... 65..95 while installing in a containerized or an
\* unprivileged-local run and 60..95 in a system-wide run, which has no
\* extracting stage and begins to install at 60.
C34_PercentInTopologyRange ==
    /\ installProgress.percent \in 0..100
    /\ installProgress.percent \in StageRange(installProgress.stage, 60)
    /\ \A r \in Runs :
          run[r].pub.percent \in
              StageRange(run[r].pub.stage,
                         IF run[r].topo = "system" THEN 60 ELSE 65)

\* C34 witness: a system-wide run has published installing at 60 percent.
C34_Witness ==
    \E r \in Runs :
        /\ cpu = r
        /\ run[r].topo = "system"
        /\ run[r].pub = [stage |-> "installing", percent |-> 60]
        /\ installProgress.stage = "installing"
        /\ installProgress.percent = 60

\* ------------------------------------------------------------------ C35
\* the pipeline of the run has been entered and no command or check that is
\* fatal to a run fails on the host
NothingFatal ==
    /\ job.n > 0
    /\ job.pc = "ended"
    /\ PreCheck(job.topo, job.link.format) = ""
    /\ failing \cap FatalNames = {}

\* config.json files of the run's topology that were missing, or could not be
\* read as JSON, when the run began
Unpatchable ==
    {c \in JobConfigDirs : job.before.config[c].state \in {"absent", "corrupt"}}

\* C35: a missing version-config directory or file, and likewise an
\* unreadable or unparsable config file, never fails an install run: the
\* patch is skipped, the file is not created (nor changed), and the run still
\* ends in done.
C35_ConfigNeverFatal ==
    NothingFatal =>
        /\ JobDone
        /\ \A c \in Unpatchable :
              /\ disk.config[c] = job.before.config[c]
              /\ ConfigFile(c) \notin disk.written

\* C35 witness: a run that knew its version has ended in done on a host where
\* one config.json was missing and another was not JSON.
C35_Witness ==
    /\ NothingFatal
    /\ JobDone
    /\ job.actualVersion \notin {Null, ""}
    /\ \E c \in Unpatchable : job.before.config[c].state = "absent"
    /\ \E c \in Unpatchable : job.before.config[c].state = "corrupt"

\* ------------------------------------------------------------------ C36
\* the loader shim of the run's install directory, before and after the run
ShimBefore == job.before.shim[InstallDir(job.topo)]

ShimAfter == disk.shim[InstallDir(job.topo)]

\* the patch step of the run has come to the statements that see to the
\* shim: the installed package.json, if there is one, was read and written
ShimStepReached ==
    /\ JobDone
    /\ disk.manifest[InstallDir(job.topo)].state # "corrupt"
    /\ failing \cap {"write package.json", "write loadNapCat.js"} = {}

\* C36 as stated: in a containerized run the loader shim is regenerated only
\* if it is absent: a shim file that exists when the patch step runs has the
\* same content after the run as before it.
C36_ExistingShimKept ==
    (job.pc = "ended" /\ job.topo = "docker" /\ ShimBefore # "")
        => ShimAfter = ShimBefore

\* C36 amended: a containerized run writes the loader shim anew whenever its
\* patch step comes to it, whatever the file held before: afterwards the file
\* is the script that imports napcat.mjs from /app/napcat.  It is the
\* unprivileged-local run that regenerates the shim only if it is absent: a
\* shim that existed has the same content after the run as before it.
C36_ShimRewrittenInContainer ==
    /\ (job.topo = "docker" /\ ShimStepReached) =>
            /\ ShimAfter = DockerLoadScript
            /\ LoadNapCatPath(DOCKER_QQ_PATH) \in disk.written
    /\ (job.pc = "ended" /\ job.topo = "docker") =>
            ShimAfter \in {ShimBefore, DockerLoadScript}
    /\ (job.pc = "ended" /\ job.topo = "rootless" /\ ShimBefore # "") =>
            /\ ShimAfter = ShimBefore
            /\ LoadNapCatPath(RootlessQQPath) \notin disk.written
    /\ (job.topo = "rootless" /\ ShimStepReached /\ ShimBefore = "") =>
            ShimAfter = RootlessLoadScript

\* C36 witness: a containerized run has ended in done on a host whose loader
\* shim existed with another content, and the shim holds the script of the
\* Docker pipeline.
C36_Witness ==
    /\ job.topo = "docker"
    /\ ShimStepReached
    /\ ShimBefore = ImageLoadScript
    /\ ShimAfter = DockerLoadScript

\* ------------------------------------------------------------------ C37
\* the next statement of run r is the publication of its terminal stage
PublishesNext(r) ==
    \/ run[r].pc = "catch" /\ run[r].i = 2
    \/ /\ run[r].pc = "steps"
       /\ CurrentStep(r).op = "update"
       /\ CurrentStep(r).stage = "done"

\* C37: whenever a run reaches done or error, removal of the scratch
\* directory has been attempted before the terminal stage is published (in
\* the catch block too, before the error is published), and a failing
\* removal never changes the outcome: a removal that succeeded or failed is
\* followed at once by the publication, and the run ends in done exactly
\* when no fatal statement has failed, and otherwise in error with the text
\* of the statement that threw.
C37_CleanupBeforeTerminal ==
    \A r \in Runs :
        cpu = r =>
            /\ run[r].pub.stage \in Terminal => run[r].cleanup = "attempted"
            /\ (run[r].pc = "catch" /\ run[r].i = 2) =>
                  run[r].cleanup = "attempted"
            /\ run[r].cleanup \in {"removed", "failed"} =>
                  /\ PublishesNext(r)
                  /\ run[r].err = ""
            /\ run[r].pc = "finally" =>
                  /\ run[r].err = "" <=> run[r].faults \cap FatalNames = {}
                  /\ installProgress.stage =
                        IF run[r].err = "" THEN "done" ELSE "error"
                  /\ installProgress.error = run[r].err
                  /\ run[r].pub.stage = installProgress.stage

\* C37 witness: the removal at the end of a pipeline has failed, no terminal
\* stage is published yet, and the publication of done is next.
C37_Witness ==
    \E r \in Runs :
        /\ cpu = r
        /\ run[r].cleanup = "failed"
        /\ PublishesNext(r)
        /\ run[r].err = ""
        /\ run[r].pub.stage \notin Terminal

\* ------------------------------------------------------------------ C38
\* the idle record was written by a reset request: no run is executing, a
\* start-install has been accepted before (which published a stage of its
\* own or went on into its catch block), and no start has thrown at its
\* pre-check (the only other writer of the idle record)
ResetReturned ==
    /\ cpu = 0
    /\ installProgress.stage = "idle"
    /\ \E q \in Runs : Started(q) /\ run[q].resp = "started"
    /\ \A q \in Runs : run[q].thrown = ""

\* a start-install request is accepted in this step
StartAccepted ==
    \E r \in Runs : run[r].pc = "new" /\ run'[r].resp = "started"

\* C38: after a reset-install request has returned, the stored progress is
\* idle with percent 0 until the next start-install is accepted: no step of
\* an earlier run overwrites the reset record.
C38_ResetRecordStays ==
    [][ResetReturned =>
          \/ StartAccepted
          \/ /\ installProgress'.stage = "idle"
             /\ installProgress'.percent = 0]_vars

\* ------------------------------------------------------------------ C39
\* call f has fallen back: both tag lookups of its hint have failed and the
\* latest release is requested
FellBack(f) == fetch[f].pc = "latest" /\ Len(fetch[f].calls) = 3

\* C39: a descriptor obtained through the fallback to the latest release is
\* cached, with the time, under the version hint the call began with; a call
\* that begins under a known hint while the cache holds the latest
\* descriptor, stored under that hint less than 5 minutes ago, returns it and
\* sends no request, the exact-tag lookup included; and a call that ends in
\* failure leaves the cache as it was.
C39_FallbackCached ==
    [][\A f \in Fetches :
          /\ (FellBack(f) /\ fetch'[f].result = LatestTag) =>
                /\ HintKnown(fetch[f].key)
                /\ releaseCache' = [data |-> LatestTag, timestamp |-> now,
                                    version |-> fetch[f].key]
          /\ ( /\ Begins(f)
               /\ HintKnown(cachedNapCatVersion)
               /\ releaseCache'.data = LatestTag
               /\ releaseCache'.version = cachedNapCatVersion
               /\ now - releaseCache'.timestamp < CACHE_TTL ) =>
                /\ fetch'[f].pc = "done"
                /\ fetch'[f].result = LatestTag
                /\ fetch'[f].calls = << >>
          /\ (fetch[f].pc # "done" /\ fetch'[f].result = Null) =>
                releaseCache' = releaseCache]_vars

\* C39 witness: one call has fallen back to the latest release after both
\* tag lookups failed, and another call, made under the same known hint, has
\* returned the latest descriptor from the cache without a request.
C39_Witness ==
    \E f, g \in Fetches :
        /\ fetch[f].pc = "done"
        /\ fetch[f].outs = << "failed", "failed", "ok" >>
        /\ fetch[f].result = LatestTag
        /\ HintKnown(fetch[f].key)
        /\ fetch[g].pc = "done"
        /\ fetch[g].key = fetch[f].key
        /\ fetch[g].calls = << >>
        /\ fetch[g].result = LatestTag
        /\ releaseCache.version = fetch[f].key

====
